---- MODULE Spec2Model ----
(***************************************************************************)
(* Orchestra: the cycle-driven Planner / Workers / Judge engine.           *)
(*                                                                         *)
(* Three JSON files are the persistent state: tasks.json (the Task Store), *)
(* state.json (the session) and agents.json (the Agent Pool).  Every       *)
(* operation on them is an async function that reads the whole file,       *)
(* changes its private copy and writes the whole file back.  JavaScript    *)
(* runs one continuation at a time, so the atomic steps of the model are   *)
(* the continuations between two awaits: a step that ends by reading a     *)
(* file takes the file's content at that step, a step that writes replaces *)
(* the file by the writer's private copy.                                  *)
(***************************************************************************)
EXTENDS Integers, Sequences, FiniteSets, TLC

\* ------------------------------------------------------------------ bounds
\* Workers of the worker stage under Spec (the Task Store under concurrency).
StoreWorkers == 3
\* Tasks the Planner may create in a whole run under Spec.
StoreTasks == 1
\* Cycle budget (maxCycles) of the run under Spec.
StoreCycles == 1
\* Workers, tasks and cycle budget under SpecOrch (the cycle loop).
OrchWorkers == 1
OrchTasks == 3
OrchCycles == 2
\* Executions that may end in a failed result or an exception in one behaviour.
StoreFailures == 3
OrchFailures == 1
\* Invocations of the pause command, and of resume, in one behaviour.
MaxPauses == 1
MaxResumes == 1

\* Concurrent calls of executeTask, and calls (those of a failover included)
\* in one behaviour, under SpecPool.
PoolExecutors == 2
PoolRuns == 3
\* The clock: minutes a tick advances, and the last minute.
TickMinutes == 45
MaxTime == 45
\* Workers and tasks under SpecClaim.
ClaimWorkers == 3
ClaimTasks == 3
\* Workers, tasks and failed or raising executions under SpecFair.
FairWorkers == 2
FairTasks == 2
FairFailures == 1
\* Largest threshold given to the controller, and events of either topic
\* delivered in one behaviour, under SpecController.
MaxThreshold == 4
MaxDeliveries == 5
\* Entries of tasks and of spawn_sub_planners in an agent's output under
\* SpecParse.
ParseTasks == 11
ParseSubs == 6
\* Main tasks, sub-planners and tasks of a sub-planner in the outputs under
\* SpecPlanner.
PlanTasks == 1
PlanSubs == 2
PlanSubTasks == 2
\* Cycle budget, workers and tasks under SpecWakeup.
WakeCycles == 2
WakeWorkers == 1
WakeTasks == 6
\* Workers and failed or raising executions under SpecRetry.
RetryWorkers == 2
RetryFailures == 2
\* Largest cycle budget, and tasks and failures, under SpecStart.
StartCycles == 1
StartTasks == 1
StartFailures == 1
\* Words of an output given to detectError under SpecDetect.
MaxWords == 2
\* Tasks in the store, and cycle budget, when the Judge runs under SpecJudge.
JudgeTasks == 2
JudgeCycles == 2

\* --------------------------------------------------------------- constants
DefaultMaxAttempts == 3
\* parsePlannerOutput's and spawnSubPlanner's truncations
MaxPlannerTasks == 10
MaxSubPlanners == 5
MaxSubPlannerTasks == 5
WakeupThreshold == 3

Max(a, b) == IF a >= b THEN a ELSE b
Min(a, b) == IF a <= b THEN a ELSE b
WorkerSlots == 1..Max(StoreWorkers, Max(OrchWorkers, ClaimWorkers))
\* durationMs of a successful execution
Durations == {2}
NoWorker == 0
\* error categories of a failed execution: one the handlers retry, one they fail
Categories == {"timeout", "permission"}
Decisions == {"CONTINUE", "COMPLETE", "ABORT"}
PausedStatuses == {"paused_manual", "paused_no_agents", "paused_error"}

VARIABLES
  \* tasks.json
  tasks,
  \* state.json
  state,
  \* Orchestra instance: fields and the locals of start / runCycle
  opts, initialized, opc, cur, finalStatus, lastDecision,
  stageNo, planned, completed, failed, judgeDecision, judgeOutput, sA, sB, result,
  taskBudget, failBudget,
  plannerWakeupPending, completedSinceLastWakeup,
  \* PlannerWakeupController: its other fields, and the numbers of
  \* planner:wakeup and task:completed events the event bus has delivered
  wakeupThreshold, enabled, wakeups, delivered,
  \* worker loops of executeAllPendingTasks
  wpc, wlist, pendingTasks, wtask, wcopy, werr, workerCompleted, workerFailed,
  \* the pause command (another process) and resume
  ppc, pB, pauses, resumes, resumedFrom,
  \* agents.json, the clock, and the calls of executeTask on the pool
  pool, now, epc, emode, eagent, edur, enow, ecopy, esel, runs, limitedUntil,
  \* executeTask's result, and the executions one top-level call has started
  eresult, eexecs,
  \* detectError's parameters and the category it returned
  output, exitCode, errorCategory,
  \* the shared working tree: tasks whose changes are not staged (tree), the
  \* changes staged for the next commit (index), those of the last commit (head)
  git,
  \* PlannerRunner.run: the output of the Planner's agent and of each
  \* sub-planner's agent, the parsed plan, the main tasks still to add, and
  \* each sub-planner's position, loaded list, tasks to add and tasks added
  plannerRaw, subRaw, parsedPlan, mainLeft, subpc, subList, subLeft, subAdded

storeVars == <<tasks>>
sessionVars == <<state>>
orchVars == <<opts, initialized, opc, cur, finalStatus, lastDecision,
              stageNo, planned, completed, failed, judgeDecision, judgeOutput, sA, sB,
              result, taskBudget, failBudget>>
\* orchVars without failBudget
orchOther == <<opts, initialized, opc, cur, finalStatus, lastDecision,
               stageNo, planned, completed, failed, judgeDecision, judgeOutput, sA, sB,
               result, taskBudget>>
\* what neither a delivery of task:completed nor reset changes in the controller
controllerConfig == <<wakeupThreshold, enabled>>
busLog == <<wakeups, delivered>>
wakeupVars == <<plannerWakeupPending, completedSinceLastWakeup, controllerConfig, busLog>>
workerVars == <<wpc, wlist, pendingTasks, wtask, wcopy, werr,
                workerCompleted, workerFailed>>
pauseVars == <<ppc, pB, pauses, resumes, resumedFrom>>
poolVars == <<pool, now, epc, emode, eagent, edur, enow, ecopy, esel, runs,
              limitedUntil, eresult, eexecs>>
\* the locals of a call of executeTask that only its own steps change
callVars == <<eresult, eexecs>>
\* the input and the result of a call of detectError
detectVars == <<output, exitCode, errorCategory>>
plannerVars == <<plannerRaw, subRaw, parsedPlan, mainLeft, subpc, subList, subLeft,
                 subAdded>>
engineVars == <<storeVars, sessionVars, orchVars, wakeupVars, workerVars,
                pauseVars, detectVars, git, plannerVars>>
vars == <<engineVars, poolVars>>

\* ------------------------------------------------------------------ tasks
\* createTask: a pending task without assignment, attempts 0.
createTask(maxAttempts) ==
  [status |-> "pending", assigned_agent |-> "null", worker_id |-> NoWorker,
   attempts |-> 0, max_attempts |-> maxAttempts,
   history |-> 0, last_error |-> "null"]

RECURSIVE FilterIdx(_, _, _)
\* The indices i of list, in order from index i0, with list[i].status = st.
\* (tasks.filter(t => t.status === st), as positions in the store)
FilterIdx(list, st, i0) ==
  IF i0 > Len(list) THEN <<>>
  ELSE IF list[i0].status = st
       THEN <<i0>> \o FilterIdx(list, st, i0 + 1)
       ELSE FilterIdx(list, st, i0 + 1)

PendingOf(list) == FilterIdx(list, "pending", 1)

CountStatus(list, st) == Cardinality({i \in 1..Len(list) : list[i].status = st})

\* A choice by the worker's id instead of its ordinal.
taskIndexFromId(workerId, n) == workerId % n

\* claimTask's choice: parseInt(workerId) - 1, modulo the pending count,
\* as a 0-based index into the pending list.
taskIndex(workerId, n) == (workerId - 1) % n

\* claimTask's mutation of the chosen task.
claimMutate(t, workerId, agent) ==
  [t EXCEPT !.status = "in_progress", !.assigned_agent = agent,
            !.worker_id = workerId, !.attempts = @ + 1]

\* markTaskCompleted's mutation of the task it got with getTask.
completeMutate(t) == [t EXCEPT !.history = @ + 1, !.status = "completed"]

\* recordTaskError's mutation.
errorMutate(t, category) == [t EXCEPT !.history = @ + 1, !.last_error = category]

\* A release that returns the task to pending and keeps its worker.
releaseKeepsWorker(t) == [t EXCEPT !.status = "pending"]

\* releaseTask's mutation.
releaseMutate(t) ==
  [t EXCEPT !.status = "pending", !.assigned_agent = "null", !.worker_id = NoWorker]

\* markTaskFailed's mutation.
failedMutate(t) == [t EXCEPT !.status = "failed"]

\* A release of stuck tasks that stops after the first task it released.
releaseStuckFirstOnly(list) ==
  [i \in 1..Len(list) |->
     IF list[i].status = "in_progress"
        /\ \A j \in 1..(i - 1) : list[j].status # "in_progress"
     THEN releaseMutate(list[i]) ELSE list[i]]

\* releaseStuckTasks over a loaded list.
releaseStuck(list) ==
  [i \in 1..Len(list) |->
     IF list[i].status = "in_progress" THEN releaseMutate(list[i]) ELSE list[i]]

\* A task a previous session left in tasks.json: released after its second
\* failed attempt (start replaces state.json only, the Task Store is kept).
LeftoverTask ==
  [createTask(DefaultMaxAttempts) EXCEPT
     !.attempts = DefaultMaxAttempts - 1, !.history = DefaultMaxAttempts - 1,
     !.last_error = "timeout"]

NoTask == [id |-> 0, attempts |-> 0, max_attempts |-> 0]
NoCopy == createTask(0)

Workers == 1..opts.maxWorkers

\* ---------------------------------------------------------------- workers
\* A worker acts only while executeAllPendingTasks awaits the worker loops.
InStage == opc = "stage_wait"

\* claimTask, up to the await of saveTasks: load, filter, choose, mutate.
\* A worker loop that has no break.
afterRunWorkerNoBreak(r) == "claim"

\* workerLoop's test of what runWorker returned: no taskId and no success
\* breaks the loop.  runWorker returns that when claimTask returned null and
\* also after releaseTask (retry, or the catch).
afterRunWorker(r) ==
  IF ~r.taskId /\ ~r.success THEN "done" ELSE "claim"

ClaimLoad(w) ==
  /\ InStage /\ w \in Workers /\ wpc[w] = "claim"
  /\ LET pend == PendingOf(tasks)
         n == Len(pend)
     IN IF n = 0
        THEN \* claim returns null: runWorker returns, workerLoop breaks
             /\ wpc' = [wpc EXCEPT ![w] =
                         afterRunWorker([success |-> FALSE, taskId |-> FALSE])]
             /\ pendingTasks' = [pendingTasks EXCEPT ![w] = pend]
             /\ UNCHANGED <<wlist, wtask>>
        ELSE LET id == pend[taskIndex(w, n) + 1]
                 t == claimMutate(tasks[id], w, "claude")
             IN /\ wlist' = [wlist EXCEPT ![w] = [tasks EXCEPT ![id] = t]]
                /\ wtask' = [wtask EXCEPT ![w] =
                      [id |-> id, attempts |-> t.attempts,
                       max_attempts |-> t.max_attempts]]
                /\ pendingTasks' = [pendingTasks EXCEPT ![w] = pend]
                /\ wpc' = [wpc EXCEPT ![w] = "claim_save"]
  /\ UNCHANGED <<tasks, state, orchVars, wakeupVars, wcopy, werr,
                 workerCompleted, workerFailed, pauseVars, poolVars, detectVars, git, plannerVars>>

\* claimTask's saveTasks: the private list replaces the file; claim returns.
ClaimSave(w) ==
  /\ InStage /\ w \in Workers /\ wpc[w] = "claim_save"
  /\ tasks' = wlist[w]
  /\ wlist' = [wlist EXCEPT ![w] = <<>>]
  /\ pendingTasks' = [pendingTasks EXCEPT ![w] = <<>>]
  /\ wpc' = [wpc EXCEPT ![w] = "exec"]
  /\ UNCHANGED <<state, orchVars, wakeupVars, wtask, wcopy, werr,
                 workerCompleted, workerFailed, pauseVars, poolVars, detectVars, git, plannerVars>>

\* executorManager.executeTask as runWorker sees it: a successful result, a
\* failed result with its error, or an exception (select yields wait or pause).
ExecuteSuccess(w) ==
  /\ InStage /\ w \in Workers /\ wpc[w] = "exec"
  /\ wpc' = [wpc EXCEPT ![w] = "complete_get"]
  /\ git' = [git EXCEPT !.tree = @ \cup {wtask[w].id}]
  /\ UNCHANGED <<tasks, state, orchVars, wakeupVars, wlist, pendingTasks, wtask,
                 wcopy, werr, workerCompleted, workerFailed, pauseVars, poolVars, detectVars,
                 plannerVars>>

ExecuteFailure(w) ==
  /\ InStage /\ w \in Workers /\ wpc[w] = "exec"
  /\ failBudget > 0
  /\ failBudget' = failBudget - 1
  /\ \E c \in Categories : werr' = [werr EXCEPT ![w] = c]
  /\ wpc' = [wpc EXCEPT ![w] = "error_get"]
  /\ UNCHANGED <<tasks, state, orchOther, wakeupVars, wlist, pendingTasks, wtask,
                 wcopy, workerCompleted, workerFailed, pauseVars, poolVars, detectVars, git, plannerVars>>

\* A catch that raises the exception again: the worker loop rejects.
runWorkerCatchRethrows == "rejected"

\* runWorker's catch: log, then releaseTask.
runWorkerCatch == "release_get"

ExecuteThrow(w) ==
  /\ InStage /\ w \in Workers /\ wpc[w] = "exec"
  /\ failBudget > 0
  /\ failBudget' = failBudget - 1
  /\ wpc' = [wpc EXCEPT ![w] = runWorkerCatch]
  /\ UNCHANGED <<tasks, state, orchOther, wakeupVars, wlist, pendingTasks, wtask,
                 wcopy, werr, workerCompleted, workerFailed, pauseVars, poolVars, detectVars, git, plannerVars>>

\* getTask inside markTaskCompleted / recordTaskError / releaseTask /
\* markTaskFailed: the task is read from the file and changed in memory.
GetStep(w, from, to, t) ==
  /\ InStage /\ w \in Workers /\ wpc[w] = from
  /\ wcopy' = [wcopy EXCEPT ![w] = t]
  /\ wpc' = [wpc EXCEPT ![w] = to]
  /\ UNCHANGED <<tasks, state, orchVars, wakeupVars, wlist, pendingTasks, wtask,
                 werr, workerCompleted, workerFailed, pauseVars, poolVars, detectVars, git, plannerVars>>

\* updateTask's loadTasks: the list is read and the changed task put at its index.
LoadStep(w, from, to) ==
  /\ InStage /\ w \in Workers /\ wpc[w] = from
  /\ wlist' = [wlist EXCEPT ![w] = [tasks EXCEPT ![wtask[w].id] = wcopy[w]]]
  /\ wcopy' = [wcopy EXCEPT ![w] = NoCopy]
  /\ wpc' = [wpc EXCEPT ![w] = to]
  /\ UNCHANGED <<tasks, state, orchVars, wakeupVars, pendingTasks, wtask,
                 werr, workerCompleted, workerFailed, pauseVars, poolVars, detectVars, git, plannerVars>>

\* updateTask's saveTasks.
SaveWrite(w, from) ==
  /\ InStage /\ w \in Workers /\ wpc[w] = from
  /\ tasks' = wlist[w]
  /\ wlist' = [wlist EXCEPT ![w] = <<>>]

MarkTaskCompletedGet(w) ==
  GetStep(w, "complete_get", "complete_load", completeMutate(tasks[wtask[w].id]))

MarkTaskCompletedLoad(w) == LoadStep(w, "complete_load", "complete_save")

\* A listener that publishes only past the threshold.
onTaskCompletedPast(counter, threshold, on) ==
  IF ~on THEN [counter |-> counter, wakeup |-> FALSE]
  ELSE IF counter + 1 > threshold THEN [counter |-> 0, wakeup |-> TRUE]
  ELSE [counter |-> counter + 1, wakeup |-> FALSE]

\* The controller's task:completed listener: the counter it leaves and
\* whether it published planner:wakeup (triggerWakeup resets the counter).
onTaskCompleted(counter, threshold, on) ==
  IF ~on THEN [counter |-> counter, wakeup |-> FALSE]
  ELSE IF counter + 1 >= threshold THEN [counter |-> 0, wakeup |-> TRUE]
  ELSE [counter |-> counter + 1, wakeup |-> FALSE]

\* eventBus.emitTaskCompleted: the controller's listener runs, and when it
\* publishes planner:wakeup the Orchestra's listener sets its flag.
EmitTaskCompleted ==
  LET r == onTaskCompleted(completedSinceLastWakeup, wakeupThreshold, enabled) IN
    /\ completedSinceLastWakeup' = r.counter
    /\ plannerWakeupPending' = (plannerWakeupPending \/ r.wakeup)
    /\ wakeups' = wakeups + (IF r.wakeup THEN 1 ELSE 0)
    /\ delivered' = delivered + 1
    /\ UNCHANGED controllerConfig

\* What commitTaskChanges stages for task id: the task's files that changed,
\* or every change in the working tree when the task names no file (all).
stagedBy(g, id, all) == g.index \cup (IF all THEN g.tree ELSE {id} \cap g.tree)

\* A commit protocol that returns to the event loop after staging.
commitTaskChangesYields(g, id, all) ==
  [tree |-> g.tree \ stagedBy(g, id, all), index |-> stagedBy(g, id, all),
   head |-> g.head]

\* commitTaskChanges: pull, stage, commit, three execSync calls with no await
\* between them; with nothing staged git commit fails and that is ignored.
commitTaskChanges(g, id, all) ==
  IF stagedBy(g, id, all) = {} THEN g
  ELSE [tree |-> g.tree \ stagedBy(g, id, all), index |-> {},
        head |-> stagedBy(g, id, all)]

\* After the save: commit, emit task:completed (the wakeup controller counts
\* it and raises planner:wakeup at the threshold), workerCompleted++.
MarkTaskCompletedSave(w) ==
  /\ SaveWrite(w, "complete_save")
  /\ \E all \in BOOLEAN : git' = commitTaskChanges(git, wtask[w].id, all)
  /\ EmitTaskCompleted
  /\ workerCompleted' = [workerCompleted EXCEPT ![w] = @ + 1]
  /\ wtask' = [wtask EXCEPT ![w] = NoTask]
  /\ wpc' = [wpc EXCEPT ![w] = "claim"]
  /\ UNCHANGED <<state, orchVars, pendingTasks, wcopy, werr, workerFailed, pauseVars,
                 poolVars, detectVars, plannerVars>>

RecordTaskErrorGet(w) ==
  GetStep(w, "error_get", "error_load", errorMutate(tasks[wtask[w].id], werr[w]))

RecordTaskErrorLoad(w) == LoadStep(w, "error_load", "error_save")

\* After the save runWorker compares the claimed task's attempts with its
\* max_attempts: markTaskFailed or releaseTask.
RecordTaskErrorSave(w) ==
  /\ SaveWrite(w, "error_save")
  /\ werr' = [werr EXCEPT ![w] = "null"]
  /\ wpc' = [wpc EXCEPT ![w] =
       IF wtask[w].attempts >= wtask[w].max_attempts
       THEN "failed_get" ELSE "release_get"]
  /\ UNCHANGED <<state, orchVars, wakeupVars, pendingTasks, wtask, wcopy,
                 workerCompleted, workerFailed, pauseVars, poolVars, detectVars, git, plannerVars>>

MarkTaskFailedGet(w) ==
  GetStep(w, "failed_get", "failed_load", failedMutate(tasks[wtask[w].id]))

MarkTaskFailedLoad(w) == LoadStep(w, "failed_load", "failed_save")

MarkTaskFailedSave(w) ==
  /\ SaveWrite(w, "failed_save")
  /\ workerFailed' = [workerFailed EXCEPT ![w] = @ + 1]
  /\ wtask' = [wtask EXCEPT ![w] = NoTask]
  /\ wpc' = [wpc EXCEPT ![w] = "claim"]
  /\ UNCHANGED <<state, orchVars, wakeupVars, pendingTasks, wcopy, werr,
                 workerCompleted, pauseVars, poolVars, detectVars, git, plannerVars>>

ReleaseTaskGet(w) ==
  GetStep(w, "release_get", "release_load", releaseMutate(tasks[wtask[w].id]))

ReleaseTaskLoad(w) == LoadStep(w, "release_load", "release_save")

\* After the save runWorker returns { success: false } with no taskId.
ReleaseTaskSave(w) ==
  /\ SaveWrite(w, "release_save")
  /\ wtask' = [wtask EXCEPT ![w] = NoTask]
  /\ wpc' = [wpc EXCEPT ![w] = afterRunWorker([success |-> FALSE, taskId |-> FALSE])]
  /\ UNCHANGED <<state, orchVars, wakeupVars, pendingTasks, wcopy, werr,
                 workerCompleted, workerFailed, pauseVars, poolVars, detectVars, git, plannerVars>>

\* ---------------------------------------------------------------- session
NoState ==
  [exists |-> FALSE, session_id |-> 0, status |-> "none", current_cycle |-> 0,
   max_cycles |-> 0, tasks_created |-> 0, tasks_completed |-> 0,
   tasks_failed |-> 0, tasks_pending |-> 0]

\* createInitialState: a new session id, status running, cycle 0, zero stats.
\* A fresh id is one more than the id of the session file it replaces.
createInitialState(old, maxCycles) ==
  [exists |-> TRUE, session_id |-> old.session_id + 1, status |-> "running",
   current_cycle |-> 0, max_cycles |-> maxCycles, tasks_created |-> 0,
   tasks_completed |-> 0, tasks_failed |-> 0, tasks_pending |-> 0]

startsWithPaused(status) == status \in PausedStatuses

\* updateStatus's change of the state it loaded.
withStatus(s, status) == [s EXCEPT !.status = status]

\* runCycle's stats, computed from the state it loaded (a) and merged by
\* updateStats into the state updateStats loaded (b).
cycleStats(a, b, nCompleted, nFailed) ==
  [b EXCEPT !.tasks_completed = a.tasks_completed + nCompleted,
            !.tasks_failed = a.tasks_failed + nFailed,
            !.tasks_pending = Max(0, a.tasks_pending - nCompleted - nFailed)]

\* The Planner's stats, likewise.
plannerStats(a, b, nNew) ==
  [b EXCEPT !.tasks_created = a.tasks_created + nNew,
            !.tasks_pending = a.tasks_pending + nNew]

\* incrementCycle's change of the state it loaded.
incrementCycle(s) == [s EXCEPT !.current_cycle = @ + 1]

NoResult == [finalStatus |-> "none", success |-> FALSE, totalCycles |-> 0,
             totalTasks |-> 0, completedTasks |-> 0, failedTasks |-> 0]

\* The result record start returns.
resultRecord(status, cycles, final) ==
  [finalStatus |-> status, success |-> (status = "completed"),
   totalCycles |-> cycles, totalTasks |-> final.tasks_created,
   completedTasks |-> final.tasks_completed, failedTasks |-> final.tasks_failed]

\* ----------------------------------------------------------- orchestrator
\* start: createInitialState and saveState; the loop's locals.
StartCreateState ==
  /\ opc = "create_state"
  /\ state' = createInitialState(state, opts.maxCycles)
  /\ cur' = 0
  /\ finalStatus' = "running"
  /\ lastDecision' = "CONTINUE"
  /\ opc' = "loop"
  /\ UNCHANGED <<tasks, opts, initialized, stageNo, planned, completed, failed,
                 judgeDecision, judgeOutput, sA, sB, result, taskBudget, failBudget, wakeupVars,
                 workerVars, pauseVars, poolVars, detectVars, git, plannerVars>>

\* A loop that tests after its first body.
whileTestAfterBody(cycle, maxCycles, status) ==
  (cycle < maxCycles \/ cycle = 0) /\ status = "running"

\* The test of start's while loop.
whileTest(cycle, maxCycles, status) == cycle < maxCycles /\ status = "running"

\* The while test, then either the loadState at the top of the body (a
\* paused status breaks the loop) or the max-cycles test after the loop.
LoopHead ==
  /\ opc = "loop"
  /\ IF whileTest(cur, opts.maxCycles, finalStatus)
     THEN IF state.exists /\ startsWithPaused(state.status)
          THEN /\ finalStatus' = state.status
               /\ opc' = "final_load"
          ELSE /\ opc' = "release_stuck"
               /\ UNCHANGED finalStatus
     ELSE /\ finalStatus' = IF cur >= opts.maxCycles /\ finalStatus = "running"
                            THEN "aborted" ELSE finalStatus
          /\ opc' = "final_load"
  /\ UNCHANGED <<tasks, state, opts, initialized, cur, lastDecision, stageNo,
                 planned, completed, failed, judgeDecision, judgeOutput, sA, sB, result,
                 taskBudget, failBudget, wakeupVars, workerVars, pauseVars, poolVars, detectVars, git, plannerVars>>

\* runCycle: releaseStuckTasks (no worker runs at this point).
RunCycleReleaseStuck ==
  /\ opc = "release_stuck"
  /\ tasks' = releaseStuck(tasks)
  /\ stageNo' = 1
  /\ opc' = "planner"
  /\ UNCHANGED <<state, opts, initialized, cur, finalStatus, lastDecision,
                 planned, completed, failed, judgeDecision, judgeOutput, sA, sB, result,
                 taskBudget, failBudget, wakeupVars, workerVars, pauseVars, poolVars, detectVars, git, plannerVars>>

\* Where runCycle goes after a Planner run that returned n tasks.
afterPlanner(n) ==
  IF stageNo = 1 THEN "stage_start"
  ELSE IF n > 0 THEN "stage_start" ELSE "stats_a"

\* PlannerRunner.run whose agent fails or whose output does not parse:
\* it returns [] before any task or statistic is written.
PlannerRunFails ==
  /\ opc = "planner"
  /\ planned' = 0
  /\ opc' = afterPlanner(0)
  /\ UNCHANGED <<tasks, state, opts, initialized, cur, finalStatus, lastDecision,
                 stageNo, completed, failed, judgeDecision, judgeOutput, sA, sB, result,
                 taskBudget, failBudget, wakeupVars, workerVars, pauseVars, poolVars, detectVars, git, plannerVars>>

\* PlannerRunner.run with a parsed plan of n tasks: each is created and added.
PlannerRun ==
  /\ opc = "planner"
  /\ \E n \in 0..taskBudget :
       /\ tasks' = tasks \o [i \in 1..n |-> createTask(DefaultMaxAttempts)]
       /\ planned' = n
       /\ taskBudget' = taskBudget - n
  /\ opc' = "planner_state"
  /\ UNCHANGED <<state, opts, initialized, cur, finalStatus, lastDecision,
                 stageNo, completed, failed, judgeDecision, judgeOutput, sA, sB, result,
                 failBudget, wakeupVars, workerVars, pauseVars, poolVars, detectVars, git, plannerVars>>

\* A loadState whose result is kept in sA.
LoadStateA(from, to) ==
  /\ opc = from
  /\ sA' = state
  /\ opc' = to
  /\ UNCHANGED <<tasks, state, opts, initialized, cur, finalStatus, lastDecision,
                 stageNo, planned, completed, failed, judgeDecision, judgeOutput, sB, result,
                 taskBudget, failBudget, wakeupVars, workerVars, pauseVars, poolVars, detectVars, git, plannerVars>>

\* The loadState of updateStatus / updateStats / incrementCycle: the state
\* read is changed in memory (to s) and kept in sB until saveState.
LoadStateB(from, to, s) ==
  /\ opc = from
  /\ sB' = s
  /\ sA' = NoState
  /\ opc' = to
  /\ UNCHANGED <<tasks, state, opts, initialized, cur, finalStatus, lastDecision,
                 stageNo, planned, completed, failed, judgeDecision, judgeOutput, result,
                 taskBudget, failBudget, wakeupVars, workerVars, pauseVars, poolVars, detectVars, git, plannerVars>>

\* saveState of the state kept in sB.
SaveStateB(from) ==
  /\ opc = from
  /\ state' = sB
  /\ sB' = NoState

PlannerLoadState == LoadStateA("planner_state", "planner_stats")

PlannerUpdateStatsLoad ==
  LoadStateB("planner_stats", "planner_save", plannerStats(sA, state, planned))

PlannerUpdateStatsSave ==
  /\ SaveStateB("planner_save")
  /\ opc' = afterPlanner(planned)
  /\ UNCHANGED <<tasks, opts, initialized, cur, finalStatus, lastDecision,
                 stageNo, planned, completed, failed, judgeDecision, judgeOutput, sA, result,
                 taskBudget, failBudget, wakeupVars, workerVars, pauseVars, poolVars, detectVars, git, plannerVars>>

\* executeAllPendingTasks: the for loop starts every worker loop; each runs
\* up to its first await, the loadTasks of its first claim.
ExecuteAllPendingTasksStart ==
  /\ opc = "stage_start"
  /\ wpc' = [w \in WorkerSlots |-> IF w \in Workers THEN "claim" ELSE "idle"]
  /\ workerCompleted' = [w \in WorkerSlots |-> 0]
  /\ workerFailed' = [w \in WorkerSlots |-> 0]
  /\ opc' = "stage_wait"
  /\ UNCHANGED <<tasks, state, opts, initialized, cur, finalStatus, lastDecision,
                 stageNo, planned, completed, failed, judgeDecision, judgeOutput, sA, sB,
                 result, taskBudget, failBudget, wakeupVars, wlist, pendingTasks, wtask,
                 wcopy, werr, pauseVars, poolVars, detectVars, git, plannerVars>>

\* A join that resolves with the first worker loop that returns.
PromiseRace(pcs) == \E w \in Workers : pcs[w] = "done"

\* await Promise.all(workerPromises): every worker loop has returned.
PromiseAll(pcs) == \A w \in Workers : pcs[w] = "done"

RECURSIVE SumTo(_, _)
SumTo(f, n) == IF n = 0 THEN 0 ELSE f[n] + SumTo(f, n - 1)

\* A runCycle that tests the flag after each of its stages.
checksWakeupEveryStage(stage) == stage \in {1, 2}

\* runCycle tests plannerWakeupPending once, after its first worker stage.
checksWakeup(stage) == stage = 1

\* Promise.all resolves: the counts are summed.  The first stage's counts are
\* runCycle's completed and failed; then the pending wakeup is consumed and
\* the Planner run again, or the stats are updated.  The counts of the
\* second stage are only logged.
ExecuteAllPendingTasksJoin ==
  /\ opc = "stage_wait"
  /\ PromiseAll(wpc)
  /\ wpc' = [w \in WorkerSlots |-> "idle"]
  /\ workerCompleted' = [w \in WorkerSlots |-> 0]
  /\ workerFailed' = [w \in WorkerSlots |-> 0]
  /\ IF stageNo = 1
     THEN /\ completed' = SumTo(workerCompleted, opts.maxWorkers)
          /\ failed' = SumTo(workerFailed, opts.maxWorkers)
     ELSE UNCHANGED <<completed, failed>>
  /\ IF checksWakeup(stageNo) /\ plannerWakeupPending
     THEN /\ plannerWakeupPending' = FALSE
          /\ completedSinceLastWakeup' = 0
          /\ UNCHANGED <<controllerConfig, busLog>>
          /\ stageNo' = 2
          /\ opc' = "planner"
     ELSE /\ opc' = "stats_a"
          /\ UNCHANGED <<wakeupVars, stageNo>>
  /\ UNCHANGED <<tasks, state, opts, initialized, cur, finalStatus, lastDecision,
                 planned, judgeDecision, judgeOutput, sA, sB, result, taskBudget, failBudget, wlist,
                 pendingTasks, wtask, wcopy, werr, pauseVars, poolVars, detectVars, git, plannerVars>>

RunCycleLoadState == LoadStateA("stats_a", "stats_b")

UpdateStatsLoad ==
  LoadStateB("stats_b", "stats_save", cycleStats(sA, state, completed, failed))

UpdateStatsSave ==
  /\ SaveStateB("stats_save")
  /\ opc' = "judge"
  /\ UNCHANGED <<tasks, opts, initialized, cur, finalStatus, lastDecision,
                 stageNo, planned, completed, failed, judgeDecision, judgeOutput, sA, result,
                 taskBudget, failBudget, wakeupVars, workerVars, pauseVars, poolVars, detectVars, git, plannerVars>>

\* ------------------------------------------------------- the Planner run
\* What an agent printed for a planning prompt.  form: a jsonPattern matches
\* and its match is JSON (pattern), or only the whole output is JSON
\* (direct), or nothing parses (none).  valid: the object has an analysis
\* and an array tasks.  tasks, subs: the entries of tasks and of
\* spawn_sub_planners; titled, named: those with title and description,
\* with name and description.
NoRaw == [success |-> FALSE, form |-> "none", valid |-> FALSE, tasks |-> 0,
          titled |-> 0, subs |-> 0, named |-> 0]

RawOutputs(maxTasks, maxSubs) ==
  {r \in [success : BOOLEAN, form : {"pattern", "direct", "none"}, valid : BOOLEAN,
          tasks : 0..maxTasks, titled : 0..maxTasks, subs : 0..maxSubs,
          named : 0..maxSubs] :
     /\ r.titled <= r.tasks /\ r.named <= r.subs
     /\ (r.form = "none" \/ ~r.valid) => (r.tasks = 0 /\ r.subs = 0)}

SubPlanners == 1..MaxSubPlanners
NoPlan == [ok |-> FALSE, tasks |-> 0, subs |-> 0]

\* A parser that truncates only on the pattern path.
parsePlannerOutputDirectWhole(r) ==
  IF r.form = "none" \/ ~r.valid THEN NoPlan
  ELSE IF r.form = "pattern"
       THEN [ok |-> TRUE, tasks |-> Min(r.titled, MaxPlannerTasks),
             subs |-> Min(r.named, MaxSubPlanners)]
       ELSE [ok |-> TRUE, tasks |-> r.tasks, subs |-> r.subs]

\* parsePlannerOutput: null, or the tasks and sub-planner areas it keeps.
parsePlannerOutput(r) ==
  IF r.form = "none" \/ ~r.valid THEN NoPlan
  ELSE IF r.form = "pattern"
       THEN [ok |-> TRUE, tasks |-> Min(r.titled, MaxPlannerTasks),
             subs |-> Min(r.named, MaxSubPlanners)]
       ELSE [ok |-> TRUE, tasks |-> Min(r.tasks, MaxPlannerTasks),
             subs |-> Min(r.subs, MaxSubPlanners)]

\* A run that adds the tasks it found although the agent failed.
plannerPlanIgnoresFailure(r) == parsePlannerOutput(r)

\* The plan run and spawnSubPlanner work with: none when the agent's
\* execution failed or its output did not parse.
plannerPlan(r) == IF r.success THEN parsePlannerOutput(r) ELSE NoPlan

\* The tasks spawnSubPlanner creates from a sub-planner's plan.
subPlannerTasks(q) == Min(q.tasks, MaxSubPlannerTasks)

PlannerIdle ==
  UNCHANGED <<state, opts, initialized, cur, finalStatus, lastDecision, stageNo,
              completed, failed, judgeDecision, judgeOutput, sA, sB, result, taskBudget,
              failBudget, wakeupVars, workerVars, pauseVars, poolVars, detectVars, git,
              plannerRaw, subRaw>>

\* run up to the parsed plan: loadTasks, executeRawPrompt, parsePlannerOutput;
\* a failed execution and an output that does not parse return [].
PlannerExecute ==
  /\ opc = "planner"
  /\ parsedPlan' = plannerPlan(plannerRaw)
  /\ IF parsedPlan'.ok
     THEN /\ mainLeft' = parsedPlan'.tasks
          /\ opc' = "planner_add"
          /\ UNCHANGED planned
     ELSE /\ planned' = 0
          /\ opc' = afterPlanner(0)
          /\ UNCHANGED mainLeft
  /\ UNCHANGED <<tasks, subpc, subList, subLeft, subAdded>>
  /\ PlannerIdle

\* The loop over the plan's tasks: createTask and an awaited addTask each.
PlannerAddTask ==
  /\ opc = "planner_add" /\ mainLeft > 0
  /\ tasks' = Append(tasks, createTask(DefaultMaxAttempts))
  /\ mainLeft' = mainLeft - 1
  /\ UNCHANGED <<opc, planned, parsedPlan, subpc, subList, subLeft, subAdded>>
  /\ PlannerIdle

\* After the loop: the sub-planners are started together, or there is none.
PlannerSpawn ==
  /\ opc = "planner_add" /\ mainLeft = 0
  /\ IF parsedPlan.subs > 0
     THEN /\ subpc' = [p \in SubPlanners |->
                        IF p <= parsedPlan.subs THEN "exec" ELSE "idle"]
          /\ opc' = "planner_subs"
          /\ UNCHANGED planned
     ELSE /\ planned' = parsedPlan.tasks
          /\ opc' = "planner_state"
          /\ UNCHANGED subpc
  /\ UNCHANGED <<tasks, parsedPlan, mainLeft, subList, subLeft, subAdded>>
  /\ PlannerIdle

\* spawnSubPlanner up to its plan.
SubPlannerExecute(p) ==
  /\ opc = "planner_subs" /\ subpc[p] = "exec"
  /\ subLeft' = [subLeft EXCEPT ![p] = subPlannerTasks(plannerPlan(subRaw[p]))]
  /\ subpc' = [subpc EXCEPT ![p] = IF subLeft'[p] > 0 THEN "add_load" ELSE "done"]
  /\ UNCHANGED <<tasks, opc, planned, parsedPlan, mainLeft, subList, subAdded>>
  /\ PlannerIdle

\* A sub-planner's addTask: its loadTasks ...
SubAddTaskLoad(p) ==
  /\ opc = "planner_subs" /\ subpc[p] = "add_load"
  /\ subList' = [subList EXCEPT ![p] = tasks]
  /\ subpc' = [subpc EXCEPT ![p] = "add_save"]
  /\ UNCHANGED <<tasks, opc, planned, parsedPlan, mainLeft, subLeft, subAdded>>
  /\ PlannerIdle

\* ... and its saveTasks; the task is then pushed to the sub-planner's result.
SubAddTaskSave(p) ==
  /\ opc = "planner_subs" /\ subpc[p] = "add_save"
  /\ tasks' = Append(subList[p], createTask(DefaultMaxAttempts))
  /\ subList' = [subList EXCEPT ![p] = <<>>]
  /\ subAdded' = [subAdded EXCEPT ![p] = @ + 1]
  /\ subLeft' = [subLeft EXCEPT ![p] = @ - 1]
  /\ subpc' = [subpc EXCEPT ![p] = IF subLeft[p] > 1 THEN "add_load" ELSE "done"]
  /\ UNCHANGED <<opc, planned, parsedPlan, mainLeft>>
  /\ PlannerIdle

\* Promise.all of the sub-planners resolves: newTasks holds the main tasks
\* and every sub-planner's tasks.
PlannerJoin ==
  /\ opc = "planner_subs"
  /\ \A p \in SubPlanners : subpc[p] \in {"idle", "done"}
  /\ planned' = parsedPlan.tasks + SumTo(subAdded, MaxSubPlanners)
  /\ subpc' = [p \in SubPlanners |-> "idle"]
  /\ subAdded' = [p \in SubPlanners |-> 0]
  /\ opc' = "planner_state"
  /\ UNCHANGED <<tasks, parsedPlan, mainLeft, subList, subLeft>>
  /\ PlannerIdle

\* parsePlannerOutput and spawnSubPlanner's truncation applied to an output.
ParsePlannerOutput ==
  /\ opc = "planner"
  /\ parsedPlan' = parsePlannerOutput(plannerRaw)
  /\ mainLeft' = parsedPlan'.tasks
  /\ subLeft' = [p \in SubPlanners |->
                   IF p <= parsedPlan'.subs
                   THEN subPlannerTasks(parsePlannerOutput(subRaw[p])) ELSE 0]
  /\ UNCHANGED <<tasks, opc, planned, subpc, subList, subAdded>>
  /\ PlannerIdle

\* -------------------------------------------------------------------- judge
\* What the Judge agent printed.  form: the whole output is one JSON object,
\* or a JSON object stands inside other text, or there is no JSON (prose).
\* decision: the value of the object's "decision" member, or absent.
\* issues: the object's "issues" member is absent, an array, or a text.
DecisionValues == Decisions \cup {"MAYBE", ""}
IssuesValues == {"absent", "list", "text"}
AgentOutputs ==
  {[form |-> "prose", decision |-> "absent", issues |-> "absent"]}
  \cup {[form |-> f, decision |-> d, issues |-> i] :
          f \in {"object", "embedded"}, d \in DecisionValues \cup {"absent"},
          i \in IssuesValues}

\* What executeRawPrompt did: it raised, or returned a result that failed or
\* a result with the agent's output.
RawResults ==
  {[outcome |-> o, form |-> "prose", decision |-> "absent", issues |-> "absent"] :
     o \in {"throws", "failed"}}
  \cup {[outcome |-> "success", form |-> a.form, decision |-> a.decision,
          issues |-> a.issues] : a \in AgentOutputs}

NoJudgeOutput == [decision |-> "none", reasoning |-> "none"]

defaultOutput(decision, reasoning) ==
  [decision |-> decision, reasoning |-> reasoning]

\* parseJudgeOutput; NoJudgeOutput is null.  The first pattern finds an object
\* that has a "decision" member and the parsed object is returned when the
\* value is one of the three decisions.  Otherwise the whole output is given
\* to JSON.parse, which raises unless the output is one object, and the
\* parsed object is returned as it is when its decision is truthy.  The
\* result's issues: the first return replaces absent issues by an empty
\* array, the second leaves them as the agent wrote them.
parseJudgeOutput(out) ==
  IF out.form = "prose" \/ out.decision = "absent" THEN NoJudgeOutput
  ELSE IF out.decision \in Decisions
       THEN [decision |-> out.decision, reasoning |-> "agent",
             issues |-> IF out.issues = "absent" THEN "list" ELSE out.issues]
  ELSE IF out.form = "object" /\ out.decision # ""
       THEN [decision |-> out.decision, reasoning |-> "agent",
             issues |-> out.issues]
  ELSE NoJudgeOutput

\* The stats JudgeRunner.run computes from the tasks it loaded.
judgeStats(allTasks) ==
  [completed |-> CountStatus(allTasks, "completed"),
   failed |-> CountStatus(allTasks, "failed"),
   pending |-> CountStatus(allTasks, "pending"),
   total |-> Len(allTasks)]

\* failed / total > 0.5 is 2 * failed > total.
heuristicDecision(stats, cycle) ==
  IF cycle.current >= cycle.max
  THEN defaultOutput("ABORT", "max_cycles")
  ELSE IF stats.pending = 0 /\ stats.failed = 0 /\ stats.completed > 0
  THEN defaultOutput("COMPLETE", "all_completed")
  ELSE IF stats.total > 0 /\ 2 * stats.failed > stats.total
  THEN defaultOutput("ABORT", "high_failure_rate")
  ELSE defaultOutput("CONTINUE", "progress")

\* JudgeRunner.run on the result raw of executeRawPrompt.  Logging the
\* parsed output reads issues.length and calls issues.join: it raises on
\* absent issues and on a non-empty text, and the catch returns CONTINUE.
JudgeRunnerRun(raw, allTasks, cycle) ==
  IF raw.outcome = "throws" THEN defaultOutput("CONTINUE", "error")
  ELSE IF raw.outcome = "failed"
  THEN defaultOutput("CONTINUE", "execution_failed")
  ELSE LET parsed == parseJudgeOutput(raw)
       IN IF parsed = NoJudgeOutput
          THEN heuristicDecision(judgeStats(allTasks), cycle)
          ELSE IF parsed.issues # "list"
          THEN defaultOutput("CONTINUE", "error")
          ELSE defaultOutput(parsed.decision, parsed.reasoning)

\* runCycle's step 3: JudgeRunner.run for cycle state.current_cycle + 1; its
\* decision is the cycle's decision.
JudgeRun ==
  /\ opc = "judge"
  /\ \E raw \in RawResults :
       judgeOutput' = JudgeRunnerRun(raw, tasks,
                        [current |-> cur + 1, max |-> opts.maxCycles])
  /\ judgeDecision' = judgeOutput'.decision
  /\ opc' = "inc_load"
  /\ UNCHANGED <<tasks, state, opts, initialized, cur, finalStatus, lastDecision,
                 stageNo, planned, completed, failed, sA, sB, result,
                 taskBudget, failBudget, wakeupVars, workerVars, pauseVars, poolVars, detectVars, git, plannerVars>>

IncrementCycleLoad == LoadStateB("inc_load", "inc_save", incrementCycle(state))

\* A loop body that does not end the run on COMPLETE.
statusAfterIgnoresComplete(decision, status) ==
  IF decision = "ABORT" THEN "aborted" ELSE status

\* The final status the loop body derives from the Judge's decision.
statusAfter(decision, status) ==
  IF decision = "COMPLETE" THEN "completed"
  ELSE IF decision = "ABORT" THEN "aborted" ELSE status

\* incrementCycle's save, then the rest of the loop body.
IncrementCycleSave ==
  /\ SaveStateB("inc_save")
  /\ cur' = cur + 1
  /\ lastDecision' = judgeDecision
  /\ finalStatus' = statusAfter(judgeDecision, finalStatus)
  /\ completed' = 0
  /\ failed' = 0
  /\ planned' = 0
  /\ judgeOutput' = NoJudgeOutput
  /\ opc' = "loop"
  /\ UNCHANGED <<tasks, opts, initialized, stageNo, judgeDecision, sA, result,
                 taskBudget, failBudget, wakeupVars, workerVars, pauseVars, poolVars, detectVars, git, plannerVars>>

\* A read or write of a JSON file raises inside the cycle (readJson rethrows
\* a parse error, writeJson a write error): start's catch sets aborted.
CycleIO == {"release_stuck", "stats_a", "stats_b", "stats_save", "inc_load", "inc_save"}

FatalError ==
  /\ opc \in CycleIO
  /\ finalStatus' = "aborted"
  /\ sA' = NoState
  /\ sB' = NoState
  /\ judgeOutput' = NoJudgeOutput
  /\ opc' = "final_load"
  /\ UNCHANGED <<tasks, state, opts, initialized, cur, lastDecision, stageNo,
                 planned, completed, failed, judgeDecision, result, taskBudget,
                 failBudget, wakeupVars, workerVars, pauseVars, poolVars, detectVars, git, plannerVars>>

\* updateStatus(finalStatus) after the loop.
FinalStatusLoad == LoadStateB("final_load", "final_save", withStatus(state, finalStatus))

FinalStatusSave ==
  /\ SaveStateB("final_save")
  /\ opc' = "final_state"
  /\ UNCHANGED <<tasks, opts, initialized, cur, finalStatus, lastDecision,
                 stageNo, planned, completed, failed, judgeDecision, judgeOutput, sA, result,
                 taskBudget, failBudget, wakeupVars, workerVars, pauseVars, poolVars, detectVars, git, plannerVars>>

\* The last loadState and the result record.
StartReturn ==
  /\ opc = "final_state"
  /\ result' = resultRecord(finalStatus, cur, state)
  /\ opc' = "done"
  /\ UNCHANGED <<tasks, state, opts, initialized, cur, finalStatus, lastDecision,
                 stageNo, planned, completed, failed, judgeDecision, judgeOutput, sA, sB,
                 taskBudget, failBudget, wakeupVars, workerVars, pauseVars, poolVars, detectVars, git, plannerVars>>

\* ------------------------------------------------------- pause and resume
\* pauseCommand (another process): loadState; a session that is not running
\* is left as it is.
PauseCommandLoad ==
  /\ ppc = "idle" /\ pauses < MaxPauses
  /\ state.exists
  /\ pauses' = pauses + 1
  /\ ppc' = IF state.status = "running" THEN "update_load" ELSE "idle"
  /\ UNCHANGED <<tasks, state, orchVars, wakeupVars, workerVars, pB, resumes,
                 resumedFrom, poolVars, detectVars, git, plannerVars>>

\* pauseCommand's updateStatus("paused_manual"): its loadState ...
PauseUpdateStatusLoad ==
  /\ ppc = "update_load"
  /\ pB' = withStatus(state, "paused_manual")
  /\ ppc' = "update_save"
  /\ UNCHANGED <<tasks, state, orchVars, wakeupVars, workerVars, pauses, resumes,
                 resumedFrom, poolVars, detectVars, git, plannerVars>>

\* ... and its saveState.
PauseUpdateStatusSave ==
  /\ ppc = "update_save"
  /\ state' = pB
  /\ pB' = NoState
  /\ ppc' = "idle"
  /\ UNCHANGED <<tasks, orchVars, wakeupVars, workerVars, pauses, resumes,
                 resumedFrom, poolVars, detectVars, git, plannerVars>>

\* Orchestra.resume on the instance whose run has returned: loadState; no
\* session, or a session that is not paused, raises.
Resume ==
  /\ opc = "done" /\ resumes < MaxResumes
  /\ resumes' = resumes + 1
  /\ IF state.exists /\ startsWithPaused(state.status)
     THEN /\ resumedFrom' = state
          /\ opc' = "resume_load"
     ELSE /\ opc' = "resume_rejected"
          /\ UNCHANGED resumedFrom
  /\ UNCHANGED <<tasks, state, opts, initialized, cur, finalStatus, lastDecision,
                 stageNo, planned, completed, failed, judgeDecision, judgeOutput, sA, sB,
                 result, taskBudget, failBudget, wakeupVars, workerVars, ppc, pB, pauses,
                 poolVars, detectVars, git, plannerVars>>

\* resume's updateStatus("running", null).
ResumeStatusLoad ==
  /\ LoadStateB("resume_load", "resume_save", withStatus(state, "running"))

ResumeStatusSave ==
  /\ SaveStateB("resume_save")
  /\ opc' = "continue"
  /\ UNCHANGED <<tasks, opts, initialized, cur, finalStatus, lastDecision,
                 stageNo, planned, completed, failed, judgeDecision, judgeOutput, sA, result,
                 taskBudget, failBudget, wakeupVars, workerVars, pauseVars, poolVars, detectVars, git, plannerVars>>

\* continueSession: loadState, then start(goal).
ContinueSession ==
  /\ opc = "continue"
  /\ opc' = IF state.exists THEN "idle" ELSE "resume_rejected"
  /\ result' = NoResult
  /\ UNCHANGED <<tasks, state, opts, initialized, cur, finalStatus, lastDecision,
                 stageNo, planned, completed, failed, judgeDecision, judgeOutput, sA, sB,
                 taskBudget, failBudget, wakeupVars, workerVars, pauseVars, poolVars, detectVars, git, plannerVars>>

\* resumeCommand (the CLI, a new process): releaseStuckTasks, the pool reset,
\* updateStatus("running"), then resume() on a new Orchestra, which finds the
\* status running and raises; the command exits.
ResumeCommand ==
  /\ opc \in {"done", "crashed"} /\ resumes < MaxResumes
  /\ state.exists
  /\ resumes' = resumes + 1
  /\ resumedFrom' = IF startsWithPaused(state.status) THEN state ELSE resumedFrom
  /\ tasks' = releaseStuck(tasks)
  /\ state' = withStatus(state, "running")
  /\ initialized' = FALSE
  /\ opc' = "resume_rejected"
  /\ UNCHANGED <<opts, cur, finalStatus, lastDecision, stageNo, planned,
                 completed, failed, judgeDecision, judgeOutput, sA, sB, result, taskBudget,
                 failBudget, wakeupVars, workerVars, ppc, pB, pauses, poolVars, detectVars, git, plannerVars>>

\* -------------------------------------------------------------- agent pool
\* The kinds in the order of Object.keys(pool.agents).
Kinds == <<"claude", "codex", "opencode">>
KindSet == {Kinds[i] : i \in 1..Len(Kinds)}
NoKind == "none"
\* available_at = null
NoTime == -1
MaxConsecutiveFailures == 3

\* The fields of an agent's state that a decision reads (last_error,
\* last_error_at and total_errors are written and never read).  success_rate
\* is a quotient of two counters, kept as <<numerator, denominator>>: 1.0 is
\* <<1, 1>>, and two rates are equal when their cross products are.
createInitialAgentState ==
  [status |-> "available", available_at |-> NoTime, cooldown_minutes |-> 0,
   tasks_completed |-> 0, tasks_failed |-> 0, consecutive_failures |-> 0,
   success_rate |-> <<1, 1>>, avg_task_duration_ms |-> 0]

createInitialAgentPool == [k \in KindSet |-> createInitialAgentState]

NoPool == [k \in KindSet |-> [createInitialAgentState EXCEPT !.status = "none"]]

markAgentBusy(p, agent) == [p EXCEPT ![agent].status = "busy"]

markAgentAvailable(p, agent) ==
  [p EXCEPT ![agent].status = "available", ![agent].available_at = NoTime,
            ![agent].cooldown_minutes = 0]

disableAgent(p, agent) == [p EXCEPT ![agent].status = "disabled"]

\* The cooldown, in minutes, of a rate-limited kind.
getCooldownMinutes(agent) == IF agent = "claude" THEN 45 ELSE 30

markAgentRateLimited(p, agent, t, cooldownMinutes) ==
  [p EXCEPT ![agent].status = "rate_limited",
            ![agent].available_at = t + cooldownMinutes,
            ![agent].cooldown_minutes = cooldownMinutes]

\* The rolling average of recordAgentSuccess (count is the new tasks_completed).
\* The division is exact while every duration is the same.
avgAfter(prevAvg, count, durationMs) ==
  IF prevAvg = 0 THEN durationMs
  ELSE (prevAvg * (count - 1) + durationMs) \div count

recordAgentSuccess(p, agent, durationMs) ==
  [p EXCEPT ![agent].status = "available",
            ![agent].tasks_completed = @ + 1,
            ![agent].consecutive_failures = 0,
            ![agent].success_rate =
               <<p[agent].tasks_completed + 1,
                 p[agent].tasks_completed + 1 + p[agent].tasks_failed>>,
            ![agent].avg_task_duration_ms =
               avgAfter(@, p[agent].tasks_completed + 1, durationMs)]

\* A failure record that leaves the success rate as it was.
recordAgentFailureKeepsRate(p, agent) ==
  LET n == p[agent].consecutive_failures + 1
  IN [p EXCEPT ![agent].tasks_failed = @ + 1,
               ![agent].consecutive_failures = n,
               ![agent].status = IF n >= MaxConsecutiveFailures
                                 THEN "errored" ELSE "available"]

recordAgentFailure(p, agent) ==
  LET n == p[agent].consecutive_failures + 1
  IN [p EXCEPT ![agent].tasks_failed = @ + 1,
               ![agent].consecutive_failures = n,
               ![agent].success_rate =
                  <<p[agent].tasks_completed,
                    p[agent].tasks_completed + p[agent].tasks_failed + 1>>,
               ![agent].status = IF n >= MaxConsecutiveFailures
                                 THEN "errored" ELSE "available"]

\* refreshAgentCooldowns at time t: the kinds whose cooldown is over ...
Refreshed(p, t) ==
  {k \in KindSet : /\ p[k].status = "rate_limited"
                   /\ p[k].available_at # NoTime
                   /\ p[k].available_at <= t}

\* ... and the pool it saves when there is one.
refreshAgentCooldowns(p, t) ==
  [k \in KindSet |->
     IF k \in Refreshed(p, t)
     THEN [p[k] EXCEPT !.status = "available", !.available_at = NoTime,
                       !.cooldown_minutes = 0]
     ELSE p[k]]

\* selectAgent's score success_rate * (1 / (avg_task_duration_ms || 1)), as a
\* fraction ScoreNum / ScoreDen.
ScoreNum(a) == a.success_rate[1]

ScoreDen(a) ==
  a.success_rate[2]
  * (IF a.avg_task_duration_ms = 0 THEN 1 ELSE a.avg_task_duration_ms)

Better(a, b) == ScoreNum(a) * ScoreDen(b) > ScoreNum(b) * ScoreDen(a)

\* new Date(available_at ?? 0)
timeOf(a) == IF a.available_at = NoTime THEN 0 ELSE a.available_at

\* sorted[0] of the stable sort of the available kinds by descending score:
\* the first kind, in the order of Kinds, that no available kind beats.
bestAvailable(p, available) ==
  LET ok(i) == /\ Kinds[i] \in available
               /\ \A k \in available : ~Better(p[k], p[Kinds[i]])
  IN Kinds[CHOOSE i \in 1..Len(Kinds) : ok(i) /\ \A j \in 1..(i - 1) : ~ok(j)]

\* sorted[0] of the stable sort of the rate-limited kinds by available_at.
soonestAvailable(p, rateLimited) ==
  LET ok(i) == /\ Kinds[i] \in rateLimited
               /\ \A k \in rateLimited : ~(timeOf(p[k]) < timeOf(p[Kinds[i]]))
  IN Kinds[CHOOSE i \in 1..Len(Kinds) : ok(i) /\ \A j \in 1..(i - 1) : ~ok(j)]

NoSelection == [type |-> "none", agent |-> NoKind, until |-> NoTime]

\* selectAgent on the pool p it loaded, at time t.
selectAgent(p, t) ==
  LET available == {k \in KindSet : p[k].status = "available"}
      rateLimited == {k \in KindSet : p[k].status = "rate_limited"}
  IN IF available # {}
     THEN [type |-> "selected", agent |-> bestAvailable(p, available),
           until |-> NoTime]
     ELSE IF rateLimited # {}
     THEN LET soonest == soonestAvailable(p, rateLimited)
          IN [type |-> "wait", agent |-> NoKind,
              until |-> IF p[soonest].available_at = NoTime THEN t
                        ELSE p[soonest].available_at]
     ELSE [type |-> "pause", agent |-> NoKind, until |-> NoTime]

\* ------------------------------------------------- executeTask on the pool
Executors == 1..PoolExecutors

\* A load of agents.json whose changed copy is kept until the save.
PoolLoad(e, from, to, p) ==
  /\ e \in Executors /\ epc[e] = from
  /\ ecopy' = [ecopy EXCEPT ![e] = p]
  /\ epc' = [epc EXCEPT ![e] = to]
  /\ UNCHANGED <<engineVars, pool, now, emode, eagent, edur, enow, esel, runs,
                 limitedUntil, callVars>>

\* saveAgentPool of the copy.
PoolSave(e, from) ==
  /\ e \in Executors /\ epc[e] = from
  /\ pool' = ecopy[e]
  /\ ecopy' = [ecopy EXCEPT ![e] = NoPool]

\* A worker calls executeTask, which calls selectAgent.
ExecuteTask(e) ==
  /\ e \in Executors /\ epc[e] = "idle"
  /\ runs < PoolRuns
  /\ runs' = runs + 1
  /\ epc' = [epc EXCEPT ![e] = "refresh_load"]
  /\ emode' = [emode EXCEPT ![e] = "execute"]
  /\ esel' = [esel EXCEPT ![e] = NoSelection]
  /\ eresult' = [eresult EXCEPT ![e] = "none"]
  /\ eexecs' = [eexecs EXCEPT ![e] = 0]
  /\ UNCHANGED <<engineVars, pool, now, eagent, edur, enow, ecopy, limitedUntil>>

\* refreshAgentCooldowns: the load; the pool is saved only if a kind changed.
RefreshAgentCooldownsLoad(e) ==
  /\ e \in Executors /\ epc[e] = "refresh_load"
  /\ enow' = [enow EXCEPT ![e] = now]
  /\ IF Refreshed(pool, now) # {}
     THEN /\ ecopy' = [ecopy EXCEPT ![e] = refreshAgentCooldowns(pool, now)]
          /\ epc' = [epc EXCEPT ![e] = "refresh_save"]
     ELSE /\ epc' = [epc EXCEPT ![e] = "select_load"]
          /\ UNCHANGED ecopy
  /\ UNCHANGED <<engineVars, pool, now, emode, eagent, edur, esel, runs,
                 limitedUntil, callVars>>

RefreshAgentCooldownsSave(e) ==
  /\ PoolSave(e, "refresh_save")
  /\ epc' = [epc EXCEPT ![e] = "select_load"]
  /\ UNCHANGED <<engineVars, now, emode, eagent, edur, enow, esel, runs,
                 limitedUntil, callVars>>

\* selectAgent's own load and its result.  executeTask raises on wait and
\* pause; failoverExecution calls executeTask again on selected and returns
\* the failed result otherwise.
SelectAgentLoad(e) ==
  /\ e \in Executors /\ epc[e] = "select_load"
  /\ LET r == selectAgent(pool, now)
     IN /\ esel' = [esel EXCEPT ![e] = r]
        /\ IF r.type = "selected"
           THEN IF emode[e] = "failover"
                THEN /\ epc' = [epc EXCEPT ![e] = "refresh_load"]
                     /\ emode' = [emode EXCEPT ![e] = "execute"]
                     /\ UNCHANGED <<eagent, callVars>>
                ELSE /\ epc' = [epc EXCEPT ![e] = "busy_load"]
                     /\ eagent' = [eagent EXCEPT ![e] = r.agent]
                     /\ UNCHANGED <<emode, callVars>>
           ELSE /\ epc' = [epc EXCEPT ![e] = "idle"]
                /\ emode' = [emode EXCEPT ![e] = "execute"]
                /\ eagent' = [eagent EXCEPT ![e] = NoKind]
                /\ eresult' = [eresult EXCEPT ![e] = "none"]
                /\ eexecs' = [eexecs EXCEPT ![e] = 0]
  /\ UNCHANGED <<engineVars, pool, now, edur, enow, ecopy, runs, limitedUntil>>

MarkAgentBusyLoad(e) ==
  PoolLoad(e, "busy_load", "busy_save", markAgentBusy(pool, eagent[e]))

\* After the save executor.execute is called.
MarkAgentBusySave(e) ==
  /\ PoolSave(e, "busy_save")
  /\ epc' = [epc EXCEPT ![e] = "execute"]
  /\ eexecs' = [eexecs EXCEPT ![e] = @ + 1]
  /\ UNCHANGED <<engineVars, now, emode, eagent, edur, enow, esel, runs,
                 limitedUntil, eresult>>

\* executor.execute resolves with a successful result, ...
ExecuteSucceeds(e) ==
  /\ e \in Executors /\ epc[e] = "execute"
  /\ \E d \in Durations : edur' = [edur EXCEPT ![e] = d]
  /\ epc' = [epc EXCEPT ![e] = "success_load"]
  /\ eresult' = [eresult EXCEPT ![e] = "success"]
  /\ UNCHANGED <<engineVars, pool, now, emode, eagent, enow, ecopy, esel, runs,
                 limitedUntil, eexecs>>

\* ... with a failed result whose output shows a rate limit, ...
ExecuteRateLimited(e) ==
  /\ e \in Executors /\ epc[e] = "execute"
  /\ epc' = [epc EXCEPT ![e] = "limited_load"]
  /\ eresult' = [eresult EXCEPT ![e] = "rate_limit"]
  /\ UNCHANGED <<engineVars, pool, now, emode, eagent, edur, enow, ecopy, esel,
                 runs, limitedUntil, eexecs>>

\* ... or with another failed result, or it raises.
ExecuteFails(e) ==
  /\ e \in Executors /\ epc[e] = "execute"
  /\ epc' = [epc EXCEPT ![e] = "failure_load"]
  /\ eresult' = [eresult EXCEPT ![e] = "failure"]
  /\ UNCHANGED <<engineVars, pool, now, emode, eagent, edur, enow, ecopy, esel,
                 runs, limitedUntil, eexecs>>

RecordAgentSuccessLoad(e) ==
  PoolLoad(e, "success_load", "success_save",
           recordAgentSuccess(pool, eagent[e], edur[e]))

RecordAgentSuccessSave(e) ==
  /\ PoolSave(e, "success_save")
  /\ epc' = [epc EXCEPT ![e] = "available_load"]
  /\ UNCHANGED <<engineVars, now, emode, eagent, edur, enow, esel, runs,
                 limitedUntil, callVars>>

RecordAgentFailureLoad(e) ==
  PoolLoad(e, "failure_load", "failure_save", recordAgentFailure(pool, eagent[e]))

RecordAgentFailureSave(e) ==
  /\ PoolSave(e, "failure_save")
  /\ epc' = [epc EXCEPT ![e] = "available_load"]
  /\ UNCHANGED <<engineVars, now, emode, eagent, edur, enow, esel, runs,
                 limitedUntil, callVars>>

MarkAgentAvailableLoad(e) ==
  PoolLoad(e, "available_load", "available_save",
           markAgentAvailable(pool, eagent[e]))

\* After the save executeTask returns its result.
MarkAgentAvailableSave(e) ==
  /\ PoolSave(e, "available_save")
  /\ epc' = [epc EXCEPT ![e] = "idle"]
  /\ eagent' = [eagent EXCEPT ![e] = NoKind]
  /\ eresult' = [eresult EXCEPT ![e] = "none"]
  /\ eexecs' = [eexecs EXCEPT ![e] = 0]
  /\ UNCHANGED <<engineVars, now, emode, edur, enow, esel, runs, limitedUntil>>

MarkAgentRateLimitedLoad(e) ==
  PoolLoad(e, "limited_load", "limited_save",
           markAgentRateLimited(pool, eagent[e], now,
                                getCooldownMinutes(eagent[e])))

\* After the save: failoverExecution when shouldReassign allows it, else the
\* failed result is returned.  limitedUntil remembers the deadline persisted.
MarkAgentRateLimitedSave(e) ==
  /\ PoolSave(e, "limited_save")
  /\ limitedUntil' = [limitedUntil EXCEPT
                        ![eagent[e]] = ecopy[e][eagent[e]].available_at]
  /\ \/ /\ runs < PoolRuns
        /\ runs' = runs + 1
        /\ epc' = [epc EXCEPT ![e] = "refresh_load"]
        /\ emode' = [emode EXCEPT ![e] = "failover"]
        /\ UNCHANGED <<eagent, callVars>>
     \/ /\ epc' = [epc EXCEPT ![e] = "idle"]
        /\ eagent' = [eagent EXCEPT ![e] = NoKind]
        /\ eresult' = [eresult EXCEPT ![e] = "none"]
        /\ eexecs' = [eexecs EXCEPT ![e] = 0]
        /\ UNCHANGED <<emode, runs>>
  /\ UNCHANGED <<engineVars, now, edur, enow, esel>>

\* Time passes.
Tick ==
  /\ now + TickMinutes <= MaxTime
  /\ now' = now + TickMinutes
  /\ UNCHANGED <<engineVars, pool, epc, emode, eagent, edur, enow, ecopy, esel,
                 runs, limitedUntil, callVars>>

\* ------------------------------------------------------------ detectError
\* An output is a sequence of words (lines).  The words are those that carry
\* one of detectError's patterns, in the letter case an agent prints them,
\* and one that carries none.
Vocabulary ==
  {"Rate Limit", "429", "timed out", "EACCES", "ECONNRESET", "network error",
   "merge conflict", "cannot merge", "error", "done"}
ExitCodes == {0, 1, 124}

\* String.prototype.toLowerCase on a word.
toLowerCase(w) ==
  CASE w = "Rate Limit" -> "rate limit"
    [] w = "EACCES" -> "eacces"
    [] w = "ECONNRESET" -> "econnreset"
    [] OTHER -> w

\* The patterns that are substrings of a lower-case word.
Substrings(w) ==
  {w} \cup (IF w = "network error" THEN {"error"}
            ELSE IF w = "merge conflict" THEN {"conflict"} ELSE {})

\* lowerOutput.includes(pattern)
includes(lowerOutput, pattern) ==
  \E i \in 1..Len(lowerOutput) : pattern \in Substrings(lowerOutput[i])

RateLimitPatterns ==
  {"rate limit", "too many requests", "quota exceeded", "429", "rate_limit",
   "ratelimit"}
TimeoutPatterns == {"timed out", "timeout"}
PermissionPatterns ==
  {"permission denied", "eacces", "access denied", "unauthorized"}
NetworkPatterns ==
  {"enotfound", "econnrefused", "econnreset", "network error",
   "connection refused", "fetch failed"}
GitConflictPatterns == {"conflict", "merge conflict", "cannot merge"}

\* A classifier that looks for a timeout before it looks for a rate limit.
detectErrorTimeoutFirst(out, code) ==
  LET lowerOutput == [i \in 1..Len(out) |-> toLowerCase(out[i])]
      has(P) == \E pattern \in P : includes(lowerOutput, pattern)
  IN IF code = 124 \/ has(TimeoutPatterns) THEN "timeout"
     ELSE IF has(RateLimitPatterns) THEN "rate_limit"
     ELSE IF has(PermissionPatterns) THEN "permission"
     ELSE IF has(NetworkPatterns) THEN "network"
     ELSE IF has(GitConflictPatterns) THEN "git_conflict"
     ELSE IF code # 0 /\ ~includes(lowerOutput, "error") THEN "crash"
     ELSE "unknown"

detectError(out, code) ==
  LET lowerOutput == [i \in 1..Len(out) |-> toLowerCase(out[i])]
      has(P) == \E pattern \in P : includes(lowerOutput, pattern)
  IN IF has(RateLimitPatterns) THEN "rate_limit"
     ELSE IF code = 124 \/ has(TimeoutPatterns) THEN "timeout"
     ELSE IF has(PermissionPatterns) THEN "permission"
     ELSE IF has(NetworkPatterns) THEN "network"
     ELSE IF has(GitConflictPatterns) THEN "git_conflict"
     ELSE IF code # 0 /\ ~includes(lowerOutput, "error") THEN "crash"
     ELSE "unknown"

\* An executor classifies the output and exit code of its agent process.
DetectError ==
  /\ errorCategory = "none"
  /\ errorCategory' = detectError(output, exitCode)
  /\ UNCHANGED <<output, exitCode, storeVars, sessionVars, orchVars, wakeupVars,
                 workerVars, pauseVars, poolVars, git, plannerVars>>

\* ------------------------------------------------------------------- specs
\* A Planner run that has not begun, with the outputs its agents will print.
InitPlanner(raw, sub) ==
  /\ plannerRaw = raw
  /\ subRaw = [p \in SubPlanners |-> sub]
  /\ parsedPlan = NoPlan
  /\ mainLeft = 0
  /\ subpc = [p \in SubPlanners |-> "idle"]
  /\ subList = [p \in SubPlanners |-> <<>>]
  /\ subLeft = [p \in SubPlanners |-> 0]
  /\ subAdded = [p \in SubPlanners |-> 0]

InitDetect(out, code) ==
  /\ output = out
  /\ exitCode = code
  /\ errorCategory = "none"

InitPoolWith(p) ==
  /\ pool = p
  /\ now = 0
  /\ epc = [e \in Executors |-> "idle"]
  /\ emode = [e \in Executors |-> "execute"]
  /\ eagent = [e \in Executors |-> NoKind]
  /\ edur = [e \in Executors |-> 0]
  /\ enow = [e \in Executors |-> 0]
  /\ ecopy = [e \in Executors |-> NoPool]
  /\ esel = [e \in Executors |-> NoSelection]
  /\ runs = 0
  /\ limitedUntil = [k \in KindSet |-> NoTime]
  /\ eresult = [e \in Executors |-> "none"]
  /\ eexecs = [e \in Executors |-> 0]

\* What initialize finds on the machine: whether checkGitRequirements
\* succeeds, and the kinds whose command isCommandAvailable finds.
Environments == [gitOk : BOOLEAN, installed : SUBSET KindSet]
FullEnv == [gitOk |-> TRUE, installed |-> KindSet]

\* The engine with start at position pc of its cycle number cycle + 1 and
\* the session file holding session.
InitAt(maxCycles, maxWorkers, budget, failures, store, pc, cycle, session, env) ==
  /\ tasks = store
  /\ state = session
  /\ opts = [maxCycles |-> maxCycles, maxWorkers |-> maxWorkers,
             gitOk |-> env.gitOk, installed |-> env.installed]
  /\ initialized = (pc # "idle")
  /\ opc = pc
  /\ cur = cycle
  /\ finalStatus = "running"
  /\ lastDecision = "CONTINUE"
  /\ stageNo = 1
  /\ planned = 0
  /\ completed = 0
  /\ failed = 0
  /\ judgeDecision = "CONTINUE"
  /\ judgeOutput = NoJudgeOutput
  /\ sA = NoState
  /\ sB = NoState
  /\ result = NoResult
  /\ taskBudget = budget
  /\ failBudget = failures
  /\ plannerWakeupPending = FALSE
  /\ completedSinceLastWakeup = 0
  /\ wakeupThreshold = WakeupThreshold
  /\ enabled = TRUE
  /\ wakeups = 0
  /\ delivered = 0
  /\ git = [tree |-> {}, index |-> {}, head |-> {}]
  /\ wpc = [w \in WorkerSlots |-> "idle"]
  /\ wlist = [w \in WorkerSlots |-> <<>>]
  /\ pendingTasks = [w \in WorkerSlots |-> <<>>]
  /\ wtask = [w \in WorkerSlots |-> NoTask]
  /\ wcopy = [w \in WorkerSlots |-> NoCopy]
  /\ werr = [w \in WorkerSlots |-> "null"]
  /\ workerCompleted = [w \in WorkerSlots |-> 0]
  /\ workerFailed = [w \in WorkerSlots |-> 0]
  /\ ppc = "idle"
  /\ pB = NoState
  /\ pauses = 0
  /\ resumes = 0
  /\ resumedFrom = NoState

\* The engine before start is called, with no session file.
InitWith(maxCycles, maxWorkers, budget, failures, store) ==
  InitAt(maxCycles, maxWorkers, budget, failures, store, "idle", 0, NoState,
         FullEnv)

\* runWorker up to a task's last attempt ...
WorkerRetryNext ==
  \E w \in WorkerSlots :
    \/ ClaimLoad(w) \/ ClaimSave(w)
    \/ ExecuteSuccess(w) \/ ExecuteFailure(w) \/ ExecuteThrow(w)
    \/ MarkTaskCompletedGet(w) \/ MarkTaskCompletedLoad(w) \/ MarkTaskCompletedSave(w)
    \/ RecordTaskErrorGet(w) \/ RecordTaskErrorLoad(w) \/ RecordTaskErrorSave(w)
    \/ ReleaseTaskGet(w) \/ ReleaseTaskLoad(w) \/ ReleaseTaskSave(w)

\* ... and with markTaskFailed after it.
WorkerNext ==
  \/ WorkerRetryNext
  \/ \E w \in WorkerSlots :
       MarkTaskFailedGet(w) \/ MarkTaskFailedLoad(w) \/ MarkTaskFailedSave(w)

\* ------------------------------------------------------------- initialize
\* detectAvailableAgents on the pool p: markAgentAvailable for every kind
\* found and disableAgent for every other kind.
detectAvailableAgents(p, installed) ==
  [k \in KindSet |-> IF k \in installed THEN markAgentAvailable(p, k)[k]
                                         ELSE disableAgent(p, k)[k]]

\* An initialize that goes on when no kind was detected.
initializeRaisesGitOnly(gitOk, available) == ~gitOk

\* initialize raises when the git requirements are not met, and when no
\* kind was detected.
initializeRaises(gitOk, available) == ~gitOk \/ available = {}

poolOther == <<now, epc, emode, eagent, edur, enow, ecopy, esel, runs,
               limitedUntil, eresult, eexecs>>

\* start: await initialize.  An initialized instance returns at once.  The
\* git check raises before anything is written; otherwise the initial pool
\* is saved and detection rewrites every kind's status, and an empty
\* detection raises.  start has no handler around it and raises with it.
StartInitialize ==
  /\ opc = "idle"
  /\ IF initialized
     THEN /\ opc' = "create_state"
          /\ UNCHANGED <<initialized, pool>>
     ELSE /\ pool' = IF opts.gitOk
                     THEN detectAvailableAgents(createInitialAgentPool, opts.installed)
                     ELSE pool
          /\ IF initializeRaises(opts.gitOk, opts.installed)
             THEN /\ opc' = "crashed"
                  /\ UNCHANGED initialized
             ELSE /\ initialized' = TRUE
                  /\ opc' = "create_state"
  /\ UNCHANGED <<tasks, state, opts, cur, finalStatus, lastDecision, stageNo,
                 planned, completed, failed, judgeDecision, judgeOutput, sA, sB, result,
                 taskBudget, failBudget, wakeupVars, workerVars, pauseVars, poolOther,
                 detectVars, git, plannerVars>>

\* start when no read or write of its own files raises ...
StartNext ==
  \/ StartInitialize \/ StartCreateState \/ LoopHead \/ RunCycleReleaseStuck
  \/ PlannerRunFails \/ PlannerRun \/ PlannerLoadState
  \/ PlannerUpdateStatsLoad \/ PlannerUpdateStatsSave
  \/ ExecuteAllPendingTasksStart \/ ExecuteAllPendingTasksJoin
  \/ RunCycleLoadState \/ UpdateStatsLoad \/ UpdateStatsSave
  \/ JudgeRun \/ IncrementCycleLoad \/ IncrementCycleSave
  \/ FinalStatusLoad \/ FinalStatusSave \/ StartReturn

\* ... and with such errors.
OrchestraNext == StartNext \/ FatalError

CommandNext ==
  \/ PauseCommandLoad \/ PauseUpdateStatusLoad \/ PauseUpdateStatusSave
  \/ Resume \/ ResumeStatusLoad \/ ResumeStatusSave \/ ContinueSession
  \/ ResumeCommand

\* One run of start with concurrent workers, no operator command.
Init ==
  /\ InitWith(StoreCycles, StoreWorkers, StoreTasks, StoreFailures, <<>>)
  /\ InitPoolWith(createInitialAgentPool)
  /\ InitDetect(<<>>, 0)
  /\ InitPlanner(NoRaw, NoRaw)
Next == OrchestraNext \/ WorkerNext
Spec == Init /\ [][Next]_vars

\* Runs of start with the pause command and resume, in a project directory
\* whose Task Store holds a task of an earlier session.
InitOrch ==
  /\ InitWith(OrchCycles, OrchWorkers, OrchTasks, OrchFailures, <<LeftoverTask>>)
  /\ InitPoolWith(createInitialAgentPool)
  /\ InitDetect(<<>>, 0)
  /\ InitPlanner(NoRaw, NoRaw)
NextOrch == OrchestraNext \/ WorkerNext \/ CommandNext
SpecOrch == InitOrch /\ [][NextOrch]_vars

\* The worker stage up to each worker's execution, with the default number of
\* workers: the claims of the workers over the stores the Planner and the
\* claims of the other workers leave.
InitClaim ==
  /\ InitWith(StoreCycles, ClaimWorkers, ClaimTasks, 0, <<>>)
  /\ InitPoolWith(createInitialAgentPool)
  /\ InitDetect(<<>>, 0)
  /\ InitPlanner(NoRaw, NoRaw)
NextClaim ==
  \/ StartInitialize \/ StartCreateState \/ LoopHead \/ RunCycleReleaseStuck
  \/ PlannerRun \/ PlannerLoadState \/ PlannerUpdateStatsLoad
  \/ PlannerUpdateStatsSave \/ ExecuteAllPendingTasksStart
  \/ \E w \in WorkerSlots : ClaimLoad(w) \/ ClaimSave(w)
SpecClaim == InitClaim /\ [][NextClaim]_vars

\* Concurrent calls of executeTask on the pool that initialize left: every
\* kind detected (available) or not (disabled), at least one detected.
DetectedPools ==
  {p \in [KindSet -> {createInitialAgentState,
                      [createInitialAgentState EXCEPT !.status = "disabled"]}] :
     \E k \in KindSet : p[k].status = "available"}
InitPool ==
  /\ InitWith(StoreCycles, StoreWorkers, 0, 0, <<>>)
  /\ \E p \in DetectedPools : InitPoolWith(p)
  /\ InitDetect(<<>>, 0)
  /\ InitPlanner(NoRaw, NoRaw)
NextPool ==
  \/ Tick
  \/ \E e \in Executors :
       \/ ExecuteTask(e)
       \/ RefreshAgentCooldownsLoad(e) \/ RefreshAgentCooldownsSave(e)
       \/ SelectAgentLoad(e)
       \/ MarkAgentBusyLoad(e) \/ MarkAgentBusySave(e)
       \/ ExecuteSucceeds(e) \/ ExecuteRateLimited(e) \/ ExecuteFails(e)
       \/ RecordAgentSuccessLoad(e) \/ RecordAgentSuccessSave(e)
       \/ RecordAgentFailureLoad(e) \/ RecordAgentFailureSave(e)
       \/ MarkAgentAvailableLoad(e) \/ MarkAgentAvailableSave(e)
       \/ MarkAgentRateLimitedLoad(e) \/ MarkAgentRateLimitedSave(e)
SpecPool == InitPool /\ [][NextPool]_vars

\* Runs of start, with the pause command and resume, for every cycle budget
\* from 0 and on every machine: no agents.json before initialize.
InitStart ==
  /\ \E maxCycles \in 0..StartCycles : \E env \in Environments :
       InitAt(maxCycles, OrchWorkers, StartTasks, StartFailures, <<>>,
              "idle", 0, NoState, env)
  /\ InitPoolWith(NoPool)
  /\ InitDetect(<<>>, 0)
  /\ InitPlanner(NoRaw, NoRaw)
NextStart == OrchestraNext \/ WorkerRetryNext \/ CommandNext
SpecStart == InitStart /\ [][NextStart]_vars

\* The Judge's step of a cycle, over the stores the worker stage can leave
\* (a stale save of one worker can leave a task of another in_progress) and
\* every cycle number of the budget.
taskWithStatus(st) ==
  LET claimed == claimMutate(createTask(DefaultMaxAttempts), 1, "claude")
  IN CASE st = "pending" -> createTask(DefaultMaxAttempts)
       [] st = "in_progress" -> claimed
       [] st = "completed" -> completeMutate(claimed)
       [] st = "failed" ->
            failedMutate([errorMutate(claimed, "timeout") EXCEPT
                            !.attempts = DefaultMaxAttempts,
                            !.history = DefaultMaxAttempts])
TaskStatuses == {"pending", "in_progress", "completed", "failed"}
JudgeStores ==
  UNION {[1..n -> {taskWithStatus(st) : st \in TaskStatuses}] : n \in 0..JudgeTasks}
sessionAt(maxCycles, cycle, store) ==
  [createInitialState(NoState, maxCycles) EXCEPT
     !.current_cycle = cycle,
     !.tasks_created = Len(store),
     !.tasks_completed = CountStatus(store, "completed"),
     !.tasks_failed = CountStatus(store, "failed"),
     !.tasks_pending = CountStatus(store, "pending")]
InitJudge ==
  /\ \E store \in JudgeStores : \E maxCycles \in 1..JudgeCycles :
       \E cycle \in 0..(maxCycles - 1) :
         InitAt(maxCycles, OrchWorkers, 0, 0, store, "judge", cycle,
                sessionAt(maxCycles, cycle, store), FullEnv)
  /\ InitPoolWith(createInitialAgentPool)
  /\ InitDetect(<<>>, 0)
  /\ InitPlanner(NoRaw, NoRaw)
NextJudge == JudgeRun
SpecJudge == InitJudge /\ [][NextJudge]_vars

\* One run of start in which no read or write of start's own files raises,
\* every continuation that can run eventually running (the event loop runs
\* every callback whose promise has settled).
InitFair ==
  /\ InitWith(StoreCycles, FairWorkers, FairTasks, FairFailures, <<>>)
  /\ InitPoolWith(createInitialAgentPool)
  /\ InitDetect(<<>>, 0)
  /\ InitPlanner(NoRaw, NoRaw)
NextFair == StartNext \/ WorkerRetryNext
SpecFair == InitFair /\ [][NextFair]_vars /\ WF_vars(NextFair)

\* One run of start on a Task Store that holds a task of an earlier session
\* with one attempt left.
InitRetry ==
  /\ InitWith(StoreCycles, RetryWorkers, StoreTasks, RetryFailures, <<LeftoverTask>>)
  /\ InitPoolWith(createInitialAgentPool)
  /\ InitDetect(<<>>, 0)
  /\ InitPlanner(NoRaw, NoRaw)
NextRetry == StartNext \/ WorkerNext
SpecRetry == InitRetry /\ [][NextRetry]_vars

\* runWorker when every execution succeeds.
WorkerSuccessNext ==
  \E w \in WorkerSlots :
    \/ ClaimLoad(w) \/ ClaimSave(w) \/ ExecuteSuccess(w)
    \/ MarkTaskCompletedGet(w) \/ MarkTaskCompletedLoad(w) \/ MarkTaskCompletedSave(w)

\* Runs of start over two cycles in which every execution succeeds, with
\* enough tasks for the controller's threshold to be reached in both worker
\* stages of a cycle.
InitWakeup ==
  /\ InitWith(WakeCycles, WakeWorkers, WakeTasks, 0, <<>>)
  /\ InitPoolWith(createInitialAgentPool)
  /\ InitDetect(<<>>, 0)
  /\ InitPlanner(NoRaw, NoRaw)
NextWakeup == StartNext \/ WorkerSuccessNext
SpecWakeup == InitWakeup /\ [][NextWakeup]_vars

\* The PlannerWakeupController on its own, through its public methods and
\* the event bus, with the Orchestra's listener of planner:wakeup.
ControllerIdle ==
  UNCHANGED <<storeVars, sessionVars, orchVars, workerVars, pauseVars, detectVars,
              poolVars, git, plannerVars>>

ControllerTaskCompleted ==
  /\ delivered < MaxDeliveries
  /\ EmitTaskCompleted
  /\ ControllerIdle

\* triggerWakeup called directly (reason manual or task_completed).
TriggerWakeup ==
  /\ wakeups < MaxDeliveries
  /\ wakeups' = wakeups + 1
  /\ plannerWakeupPending' = TRUE
  /\ completedSinceLastWakeup' = 0
  /\ UNCHANGED <<controllerConfig, delivered>>
  /\ ControllerIdle

SetEnabled ==
  /\ \E b \in BOOLEAN : enabled' = b
  /\ UNCHANGED <<plannerWakeupPending, completedSinceLastWakeup, wakeupThreshold, busLog>>
  /\ ControllerIdle

SetThreshold ==
  /\ \E t \in 1..MaxThreshold : wakeupThreshold' = t
  /\ UNCHANGED <<plannerWakeupPending, completedSinceLastWakeup, enabled, busLog>>
  /\ ControllerIdle

ControllerReset ==
  /\ completedSinceLastWakeup' = 0
  /\ UNCHANGED <<plannerWakeupPending, controllerConfig, busLog>>
  /\ ControllerIdle

InitController ==
  /\ InitWith(StoreCycles, StoreWorkers, 0, 0, <<>>)
  /\ InitPoolWith(createInitialAgentPool)
  /\ InitDetect(<<>>, 0)
  /\ InitPlanner(NoRaw, NoRaw)
NextController ==
  \/ ControllerTaskCompleted \/ TriggerWakeup \/ SetEnabled \/ SetThreshold
  \/ ControllerReset
SpecController == InitController /\ [][NextController]_vars

\* One call of PlannerRunner.run in the first cycle, on an empty store or one
\* that holds a task of an earlier session, over the outputs of the Planner's
\* agent and of the sub-planners' agents.
InitPlannerRun ==
  /\ \E store \in {<<>>, <<LeftoverTask>>} :
       InitAt(StoreCycles, OrchWorkers, 0, 0, store, "planner", 0,
              sessionAt(StoreCycles, 0, store), FullEnv)
  /\ InitPoolWith(createInitialAgentPool)
  /\ InitDetect(<<>>, 0)
  /\ \E raw \in RawOutputs(PlanTasks, PlanSubs) :
       \E sub \in RawOutputs(PlanSubTasks, 0) : InitPlanner(raw, sub)
NextPlanner ==
  \/ PlannerExecute \/ PlannerAddTask \/ PlannerSpawn
  \/ \E p \in SubPlanners :
       SubPlannerExecute(p) \/ SubAddTaskLoad(p) \/ SubAddTaskSave(p)
  \/ PlannerJoin
  \/ PlannerLoadState \/ PlannerUpdateStatsLoad \/ PlannerUpdateStatsSave
SpecPlanner == InitPlannerRun /\ [][NextPlanner]_vars

\* parsePlannerOutput over the outputs with up to ParseTasks tasks and
\* ParseSubs sub-planner areas, each sub-planner's agent printing as many.
InitParse ==
  /\ InitAt(StoreCycles, OrchWorkers, 0, 0, <<>>, "planner", 0,
            sessionAt(StoreCycles, 0, <<>>), FullEnv)
  /\ InitPoolWith(createInitialAgentPool)
  /\ InitDetect(<<>>, 0)
  /\ \E raw \in RawOutputs(ParseTasks, ParseSubs) : InitPlanner(raw, raw)
NextParse == ParsePlannerOutput
SpecParse == InitParse /\ [][NextParse]_vars

\* releaseStuckTasks at the start of a cycle, over the stores a cycle or a
\* stopped session can leave.
InitStuck ==
  /\ \E store \in JudgeStores : \E maxCycles \in 1..JudgeCycles :
       \E cycle \in 0..(maxCycles - 1) :
         InitAt(maxCycles, OrchWorkers, 0, 0, store, "release_stuck", cycle,
                sessionAt(maxCycles, cycle, store), FullEnv)
  /\ InitPoolWith(createInitialAgentPool)
  /\ InitDetect(<<>>, 0)
  /\ InitPlanner(NoRaw, NoRaw)
NextStuck == RunCycleReleaseStuck
SpecStuck == InitStuck /\ [][NextStuck]_vars

\* detectError over every output of at most MaxWords words and every exit code.
Outputs == UNION {[1..n -> Vocabulary] : n \in 0..MaxWords}
InitDetectAll ==
  /\ InitWith(StoreCycles, StoreWorkers, 0, 0, <<>>)
  /\ InitPoolWith(createInitialAgentPool)
  /\ \E out \in Outputs : \E code \in ExitCodes : InitDetect(out, code)
  /\ InitPlanner(NoRaw, NoRaw)
NextDetect == DetectError
SpecDetect == InitDetectAll /\ [][NextDetect]_vars

\* ------------------------------------------------------------- properties
\* The workers that hold a task: claim has returned it and the worker has not
\* yet completed, failed or released it.
HoldPcs ==
  {"exec", "complete_get", "complete_load", "complete_save",
   "error_get", "error_load", "error_save",
   "failed_get", "failed_load", "failed_save",
   "release_get", "release_load", "release_save"}

Holding(w) == wpc[w] \in HoldPcs

\* C1: under any interleaving of the workers' claims, no two workers hold the
\* same task at the same moment.
C1_NoTaskHeldTwice ==
  \A w1, w2 \in WorkerSlots :
    (w1 # w2 /\ Holding(w1) /\ Holding(w2)) => wtask[w1].id # wtask[w2].id

\* C2: a task whose persisted status is completed or failed keeps that status
\* in every later write of the Task Store (and so is never claimed again).
C2_TerminalStays ==
  [][\A i \in 1..Len(tasks) :
       tasks[i].status \in {"completed", "failed"} =>
         (i <= Len(tasks') /\ tasks'[i].status = tasks[i].status)]_vars

\* C3: no write of the Task Store persists a smaller attempts value for a task
\* than the one persisted before it.
C3_AttemptsMonotonic ==
  [][\A i \in 1..Len(tasks) :
       i <= Len(tasks') /\ tasks'[i].attempts >= tasks[i].attempts]_vars

\* C4: in every reachable Task Store a pending task has no worker_id and no
\* assigned_agent, and an in_progress task has the worker_id of a worker and
\* an assigned agent.
C4_AssignmentMatchesStatus ==
  \A i \in 1..Len(tasks) :
    /\ tasks[i].status = "pending" =>
         (tasks[i].worker_id = NoWorker /\ tasks[i].assigned_agent = "null")
    /\ tasks[i].status = "in_progress" =>
         (tasks[i].worker_id \in Workers /\ tasks[i].assigned_agent # "null")

\* A task claimed, released and claimed again is in progress in the store
\* while another worker's release of it is under way.
C4_Witness ==
  \E i \in 1..Len(tasks) : \E w \in Workers :
    /\ tasks[i].status = "in_progress" /\ tasks[i].attempts >= 2
    /\ wpc[w] = "release_save" /\ wtask[w].id = i

C6_FinalStatus ==
  /\ [](opc = "done" =>
          /\ result.finalStatus = finalStatus
          /\ result.finalStatus \in {"completed", "aborted"} \cup PausedStatuses
          /\ (result.finalStatus = "completed") <=> (lastDecision = "COMPLETE")
          /\ lastDecision = "ABORT" => result.finalStatus = "aborted"
          /\ (lastDecision = "CONTINUE" /\ cur >= opts.maxCycles) =>
               result.finalStatus = "aborted")
  /\ [][/\ (opc \in CycleIO /\ opc' = "final_load") => finalStatus' = "aborted"
        /\ (finalStatus' \in PausedStatuses /\ finalStatus' # finalStatus) =>
             (opc = "loop" /\ cur < opts.maxCycles /\ state.status = finalStatus')
        /\ opc \in {"final_load", "final_save", "final_state"} =>
             finalStatus' = finalStatus
        /\ (opc = "final_save" /\ opc' = "final_state") =>
             state'.status = finalStatus]_vars

\* start has returned completed after its second cycle.
C6_Witness ==
  /\ opc = "done" /\ result.finalStatus = "completed" /\ result.totalCycles >= 2
  /\ state.status = "completed"

\* C7: when a run that was neither paused nor resumed returns completed, the
\* result's completedTasks and failedTasks are the numbers of tasks that
\* reached completed and failed in the run, second worker stage included.
C7_ResultCountsTasks ==
  (opc = "done" /\ pauses = 0 /\ resumes = 0 /\ result.finalStatus = "completed") =>
    /\ result.completedTasks = CountStatus(tasks, "completed")
    /\ result.failedTasks = CountStatus(tasks, "failed")

\* C8: after a paused session was resumed, the session persisted is still that
\* session: same session id, cycle counter and statistics not below those
\* persisted at the resume.
C8_ResumeKeepsSession ==
  (resumedFrom.exists /\ state.exists) =>
    /\ state.session_id = resumedFrom.session_id
    /\ state.current_cycle >= resumedFrom.current_cycle
    /\ state.tasks_created >= resumedFrom.tasks_created
    /\ state.tasks_completed >= resumedFrom.tasks_completed
    /\ state.tasks_failed >= resumedFrom.tasks_failed

\* The step in which selectAgent, called by e, loads the pool and returns.
SelectStep(e) == epc[e] = "select_load" /\ epc'[e] # "select_load"

\* C9: select returns selected whenever a kind of the pool it loaded is
\* available; wait only when every kind is rate_limited, until the earliest
\* available_at; pause only when every kind is exhausted or disabled.
C9_SelectResult ==
  [][\A e \in Executors :
       SelectStep(e) =>
         LET r == esel'[e]
         IN /\ (\E k \in KindSet : pool[k].status = "available") =>
                 (r.type = "selected" /\ pool[r.agent].status = "available")
            /\ r.type = "wait" =>
                 /\ \A k \in KindSet : pool[k].status = "rate_limited"
                 /\ \E k \in KindSet : r.until = pool[k].available_at
                 /\ \A k \in KindSet : r.until <= pool[k].available_at
            /\ r.type = "pause" =>
                 \A k \in KindSet : pool[k].status \in {"exhausted", "disabled"}]_vars

\* C10: under any interleaving of the calls on the pool, select never returns
\* a kind before the deadline that was persisted when the kind was marked
\* rate_limited.
C10_RateLimitHonoured ==
  [][\A e \in Executors :
       (SelectStep(e) /\ esel'[e].type = "selected") =>
         limitedUntil[esel'[e].agent] <= now]_vars

\* C11: under every interleaving of the calls on the pool, each kind with a
\* recorded result (tasks_completed + tasks_failed > 0) has a persisted
\* success_rate equal to tasks_completed / (tasks_completed + tasks_failed).
C11_SuccessRate ==
  \A k \in KindSet :
    LET a == pool[k]
        total == a.tasks_completed + a.tasks_failed
    IN total > 0 =>
         a.success_rate[1] * total = a.tasks_completed * a.success_rate[2]

\* A kind with a success and a failure recorded is persisted while another
\* call holds a copy of the pool it loaded earlier.
C11_Witness ==
  \E k \in KindSet : \E e \in Executors :
    /\ pool[k].tasks_completed >= 1 /\ pool[k].tasks_failed >= 1
    /\ epc[e] \in {"busy_save", "success_save", "failure_save",
                  "available_save", "limited_save"}
    /\ ecopy[e][k] # pool[k]

\* The step in which the call of executeTask by e returns after it recorded
\* a failure that was not a rate limit.
FailureReturn(e) ==
  epc[e] = "available_save" /\ epc'[e] = "idle" /\ eresult[e] = "failure"

\* C12: when executeTask returns after a failure that is not a rate limit,
\* the chosen kind is persisted errored if its consecutive_failures reached
\* max_consecutive_failures, and available below that threshold.
C12_ErroredAtThreshold ==
  [][\A e \in Executors :
       FailureReturn(e) =>
         LET a == pool'[eagent[e]]
         IN a.status = IF a.consecutive_failures >= MaxConsecutiveFailures
                       THEN "errored" ELSE "available"]_vars

\* C13: one top-level call of executeTask starts at most two executions, the
\* kind first selected and one other after a rate limit.
C13_OneFailover == \A e \in Executors : eexecs[e] <= 2

\* C14: a worker whose execution failed with category permission goes on to
\* markTaskFailed after it recorded the error, whatever the attempts count of
\* the task: it does not release the task to pending.
C14_PermissionFails ==
  [][\A w \in WorkerSlots :
       (wpc[w] = "error_save" /\ werr[w] = "permission" /\ wpc'[w] # wpc[w]) =>
         wpc'[w] = "failed_get"]_vars

\* The signals of C15 in the output given: a word whose lower-case form
\* carries a pattern of the set.
Signal(P) ==
  \E i \in 1..Len(output) : \E pattern \in P :
    pattern \in Substrings(toLowerCase(output[i]))

RuleOrder ==
  <<"rate_limit", "timeout", "permission", "network", "git_conflict", "crash",
    "unknown">>

RuleMatches(c) ==
  CASE c = "rate_limit" -> Signal(RateLimitPatterns)
    [] c = "timeout" -> exitCode = 124 \/ Signal(TimeoutPatterns)
    [] c = "permission" -> Signal(PermissionPatterns)
    [] c = "network" -> Signal(NetworkPatterns)
    [] c = "git_conflict" -> Signal(GitConflictPatterns)
    [] c = "crash" -> exitCode # 0 /\ ~Signal({"error"})
    [] c = "unknown" -> TRUE

\* C15: the category detectError returns for (output, exitCode) is that of
\* the first rule that matches, in the order rate_limit, timeout (exit code
\* 124 or timeout text), permission, network, git_conflict, crash (exit code
\* not 0 and no error keyword), unknown; so a rate-limit signal wins over
\* every later signal, and no signal with exit code 0 gives unknown.
C15_FirstMatchingRule ==
  errorCategory # "none" =>
    /\ \E i \in 1..Len(RuleOrder) :
         /\ errorCategory = RuleOrder[i]
         /\ RuleMatches(RuleOrder[i])
         /\ \A j \in 1..(i - 1) : ~RuleMatches(RuleOrder[j])
    /\ Signal(RateLimitPatterns) => errorCategory = "rate_limit"
    /\ (exitCode = 0 /\ \A i \in 1..(Len(RuleOrder) - 2) : ~RuleMatches(RuleOrder[i]))
         => errorCategory = "unknown"

\* An output with a timeout text and a capitalised rate-limit text, from a
\* process that ended with exit code 124, was classified rate_limit.
C15_Witness ==
  /\ errorCategory = "rate_limit" /\ exitCode = 124
  /\ output = <<"timed out", "Rate Limit">>

\* The reasons the heuristic gives with its decisions.
HeuristicReasons ==
  {"max_cycles", "all_completed", "high_failure_rate", "progress"}

\* C16: the decision of the Judge heuristic for the cycle and the tasks it
\* read is that of the first matching rule: cycle >= max_cycles gives ABORT;
\* else every task terminal, none failed and one completed gives COMPLETE;
\* else failed / total > 0.5 gives ABORT; else CONTINUE.  A task still
\* in_progress is not terminal, so the decision is then not COMPLETE.
C16_HeuristicRules ==
  (opc = "inc_load" /\ judgeOutput.reasoning \in HeuristicReasons) =>
    LET total == Len(tasks)
        nCompleted == CountStatus(tasks, "completed")
        nFailed == CountStatus(tasks, "failed")
        terminal == nCompleted + nFailed = total
    IN judgeOutput.decision =
         IF cur + 1 >= opts.maxCycles THEN "ABORT"
         ELSE IF terminal /\ nFailed = 0 /\ nCompleted > 0 THEN "COMPLETE"
         ELSE IF total > 0 /\ 2 * nFailed > total THEN "ABORT"
         ELSE "CONTINUE"

\* C17: the decision JudgeRunner.run returns to runCycle, whichever way it
\* was made, is CONTINUE, COMPLETE or ABORT.
C17_DecisionInRange == judgeDecision \in Decisions

\* A step that leaves the session file with the session it had.
SameSession ==
  state.exists /\ state'.exists /\ state'.session_id = state.session_id

\* C18: the current_cycle of a session's file is 0 when start creates it,
\* changes only by incrementCycle's save and then by exactly +1 (so it never
\* decreases), and never exceeds max_cycles.
C18_CycleCounter ==
  [][/\ (opc = "create_state" /\ opc' = "loop") => state'.current_cycle = 0
     /\ SameSession =>
          /\ state'.current_cycle >= state.current_cycle
          /\ state'.current_cycle <= state'.max_cycles
          /\ state'.current_cycle # state.current_cycle =>
               (opc = "inc_save" /\ state'.current_cycle = state.current_cycle + 1)]_vars

\* The positions of start, resume and continueSession outside runCycle.
OutsideCycle ==
  {"idle", "crashed", "create_state", "loop", "final_load", "final_save",
   "final_state", "done", "resume_load", "resume_save", "continue",
   "resume_rejected"}

\* C19: with max_cycles = 0 start is never inside a cycle: no Planner run
\* creates a task, no worker leaves idle, no Judge output exists, and the
\* status start ends with and returns is aborted.
C19_ZeroCycles ==
  opts.maxCycles = 0 =>
    /\ opc \in OutsideCycle
    /\ tasks = <<>> /\ taskBudget = StartTasks /\ planned = 0
    /\ \A w \in WorkerSlots : wpc[w] = "idle"
    /\ judgeOutput = NoJudgeOutput /\ cur = 0
    /\ state.exists => (state.current_cycle = 0 /\ state.tasks_created = 0)
    /\ opc \in {"final_load", "final_save", "final_state"} => finalStatus = "aborted"
    /\ result # NoResult => (result.finalStatus = "aborted" /\ result.totalCycles = 0)

C19_Witness ==
  opts.maxCycles = 0 /\ opc = "done" /\ result.finalStatus = "aborted"

\* C20: when the git requirements are not met or no agent kind is detected,
\* start raises in initialize: it never gets past it, and there is no
\* session state, no task and no cycle, before and after it raises.
C20_InitializeFailsFast ==
  (~opts.gitOk \/ opts.installed = {}) =>
    /\ opc \in {"idle", "crashed"}
    /\ ~initialized
    /\ ~state.exists /\ tasks = <<>> /\ taskBudget = StartTasks
    /\ cur = 0 /\ result = NoResult /\ judgeOutput = NoJudgeOutput
    /\ \A w \in WorkerSlots : wpc[w] = "idle"
    /\ opc = "crashed" /\ ~opts.gitOk => pool = NoPool

C20_Witness ==
  /\ opc = "crashed" /\ opts.gitOk /\ opts.installed = {}
  /\ \A k \in KindSet : pool[k].status = "disabled"

\* The count releaseStuckTasks returns on a store: the tasks it releases.
releasedCount(list) == CountStatus(list, "in_progress")

\* C21: after releaseStuckTasks, a second releaseStuckTasks changes nothing
\* and returns 0; no task is in_progress, and the completed and the failed
\* tasks are as they were before the first.
C21_ReleaseStuckIdempotent ==
  [][(opc = "release_stuck" /\ opc' = "planner") =>
       /\ releaseStuck(tasks') = tasks'
       /\ releasedCount(tasks') = 0
       /\ Len(tasks') = Len(tasks)
       /\ \A i \in 1..Len(tasks') :
            /\ tasks'[i].status # "in_progress"
            /\ tasks[i].status \in {"completed", "failed"} => tasks'[i] = tasks[i]]_vars

C21_Witness ==
  /\ opc = "planner" /\ Len(tasks) = 2
  /\ tasks[1] = releaseMutate(taskWithStatus("in_progress"))
  /\ tasks[2] = taskWithStatus("completed")

\* C22: a worker loop ends only at a claim that found no pending task; after
\* a release (retry, or an exception) the worker claims again.
C22_WorkerEndsAtEmptyClaim ==
  [][\A w \in WorkerSlots :
       (wpc[w] # "done" /\ wpc'[w] = "done") =>
         (wpc[w] = "claim" /\ Len(PendingOf(tasks)) = 0)]_vars

\* C23: an exception out of executeTask takes the worker to releaseTask and
\* leaves the stage and the other workers as they are; the release makes the
\* task pending; and the cycle goes on to its Judge and to incrementCycle.
C23_ExceptionKeepsCycle ==
  /\ [][\A w \in WorkerSlots :
          /\ (wpc[w] = "exec" /\ wpc'[w] \notin {"exec", "complete_get", "error_get"}) =>
               /\ wpc'[w] = "release_get"
               /\ opc' = "stage_wait" /\ finalStatus' = "running"
               /\ \A v \in WorkerSlots \ {w} : wpc'[v] = wpc[v]
          /\ (wpc[w] = "release_save" /\ wpc'[w] # "release_save") =>
               tasks'[wtask[w].id].status = "pending"]_vars
  /\ (\E w \in WorkerSlots : wpc[w] = "release_get") ~> (cur = 1 /\ opc = "done")

\* A run that ended after its cycle with a task that was claimed and came
\* back to pending with no AgentAttempt recorded: the catch released it.
C23_Witness ==
  /\ opc = "done" /\ cur = 1 /\ result.totalCycles = 1
  /\ \E i \in 1..Len(tasks) :
       tasks[i].status = "pending" /\ tasks[i].attempts > 0 /\ tasks[i].history = 0

\* The workers that are executing task i.
Executing(i) == {w \in Workers : wpc[w] = "exec" /\ wtask[w].id = i}

\* C24: after a failed execution the task is released when the attempts of
\* the claimed task are below max_attempts and marked failed otherwise, with
\* last_error recorded; a task is marked failed only with attempts >=
\* max_attempts; and the executions of a task that ended with a recorded
\* failure, plus those running, never exceed its max_attempts.
C24_RetryUntilMaxAttempts ==
  /\ [][\A w \in WorkerSlots :
          /\ (wpc[w] = "error_save" /\ wpc'[w] # "error_save") =>
               /\ tasks'[wtask[w].id].last_error # "null"
               /\ wpc'[w] = IF wtask[w].attempts < wtask[w].max_attempts
                            THEN "release_get" ELSE "failed_get"
          /\ (wpc[w] = "failed_save" /\ wpc'[w] # "failed_save") =>
               /\ tasks'[wtask[w].id].status = "failed"
               /\ tasks'[wtask[w].id].attempts >= tasks'[wtask[w].id].max_attempts]_vars
  /\ [](\A i \in 1..Len(tasks) :
          tasks[i].history + Cardinality(Executing(i)) <= tasks[i].max_attempts)

\* C25: agent_history only grows, and every task that is not in_progress has
\* as many AgentAttempts as attempts (each way out of in_progress adds one).
C25_HistoryMatchesAttempts ==
  /\ [][\A i \in 1..Len(tasks) : tasks'[i].history >= tasks[i].history]_vars
  /\ [](\A i \in 1..Len(tasks) :
          tasks[i].status # "in_progress" => tasks[i].history = tasks[i].attempts)

C27_PlannerAtMostTwice ==
  /\ [][/\ stageNo' # stageNo =>
             \/ opc = "release_stuck" /\ stageNo' = 1
             \/ /\ opc = "stage_wait" /\ opc' = "planner" /\ PromiseAll(wpc)
                /\ stageNo = 1 /\ stageNo' = 2 /\ plannerWakeupPending
        /\ (opc # "planner" /\ opc' = "planner") =>
             \/ opc = "release_stuck" /\ stageNo' = 1
             \/ opc = "stage_wait" /\ stageNo = 1 /\ stageNo' = 2
        /\ (opc # "stage_start" /\ opc' = "stage_start") =>
             (opc \in {"planner", "planner_save"}
              /\ stageNo' = stageNo)
        /\ wakeups' # wakeups => (opc = "stage_wait" /\ opc' = "stage_wait")
        /\ (opc = "stage_wait" /\ stageNo = 2 /\ opc' # opc) => opc' = "stats_a"]_vars
  /\ [](stageNo \in {1, 2})

\* A wakeup raised during the second stage, and the statistics next.
C27_Witness ==
  opc = "stats_a" /\ stageNo = 2 /\ plannerWakeupPending /\ wakeups = 2 /\ cur = 0

\* C28: the wakeup signal does not outlive its cycle: whenever a cycle
\* starts (runCycle is at its first step) plannerWakeupPending is false, so
\* the replan at the end of a first stage answers a wakeup of that cycle.
C28_WakeupConsumedInCycle ==
  opc = "release_stuck" => ~plannerWakeupPending

\* C30: the controller counts the completions since the last Planner run:
\* when a worker stage begins, which is always right after a Planner run,
\* the counter is 0.
C30_CounterSinceLastPlannerRun ==
  opc = "stage_start" => completedSinceLastWakeup = 0

\* C29: a delivery of task:completed to the enabled controller whose counter
\* is below its threshold t publishes planner:wakeup exactly when it brings
\* the counter to t, and then leaves the counter 0, otherwise the counter
\* one higher; after every delivery to the enabled controller the counter
\* is in 0..t-1; a delivery to the disabled controller changes neither the
\* counter nor the flag and publishes nothing.
C29_WakeupAtThreshold ==
  [][delivered' = delivered + 1 =>
       /\ (enabled /\ completedSinceLastWakeup < wakeupThreshold) =>
            /\ (wakeups' = wakeups + 1) <=>
                 (completedSinceLastWakeup + 1 = wakeupThreshold)
            /\ wakeups' \in {wakeups, wakeups + 1}
            /\ completedSinceLastWakeup' =
                 (IF wakeups' = wakeups THEN completedSinceLastWakeup + 1 ELSE 0)
            /\ wakeups' # wakeups => plannerWakeupPending'
       /\ enabled =>
            (completedSinceLastWakeup' >= 0
             /\ completedSinceLastWakeup' < wakeupThreshold)
       /\ ~enabled =>
            UNCHANGED <<completedSinceLastWakeup, wakeups, plannerWakeupPending>>]_vars

\* Threshold 2: the second delivery published, and a third one, delivered
\* to the disabled controller, left the counter at 0.
C29_Witness ==
  /\ wakeupThreshold = 2 /\ ~enabled /\ delivered = 3 /\ wakeups = 1
  /\ completedSinceLastWakeup = 0 /\ plannerWakeupPending

\* C31: a paused status in the session file is not lost to the cycle in
\* flight: the only steps that replace it by another status are the save of
\* start's final updateStatus and the save of resume's updateStatus; no save
\* of the statistics or of the cycle counter does.
C31_PauseNotLost ==
  [][(state.exists /\ state.status \in PausedStatuses
      /\ state'.status \notin PausedStatuses) =>
       opc \in {"final_save", "resume_save"}]_vars

\* C32: one worker's pull, stage and commit are one step.  Between the steps
\* of the workers nothing is staged and uncommitted; the commit that changes
\* the head is made in the step in which its worker leaves markTaskCompleted,
\* it holds what that worker staged (its task's changes, or every change in
\* the working tree), and no other worker moves in that step.
C32_CommitIsOneStep ==
  /\ [](git.index = {})
  /\ [][git'.head # git.head =>
          \E w \in Workers :
            /\ wpc[w] = "complete_save" /\ wpc'[w] = "claim"
            /\ git'.head \in {{wtask[w].id}, git.tree}
            /\ git'.tree = git.tree \ git'.head
            /\ \A v \in WorkerSlots \ {w} : wpc'[v] = wpc[v]]_vars

\* Worker 2 has committed its task's changes while worker 1 was executing.
C32_Witness ==
  /\ git.head # {} /\ git.index = {}
  /\ \E w \in Workers : wpc[w] = "exec" /\ wtask[w].id \notin git.head

\* The tasks of the list that a Planner run created and nothing has touched.
CreatedIn(list) ==
  Cardinality({i \in 1..Len(list) : list[i] = createTask(DefaultMaxAttempts)})

\* C33: when a Planner run has returned, every task it returned is in the
\* Task Store: the store holds as many new tasks as the run returned, main
\* tasks and the tasks of the parallel sub-planners together.
C33_PlannerTasksInStore ==
  opc \in {"planner_state", "planner_stats", "planner_save", "stage_start"} =>
    CreatedIn(tasks) = planned

\* C34: whatever the agents print, the parsed plan keeps at most 10 tasks and
\* 5 sub-planner areas, a sub-planner creates at most 5 tasks, and the run
\* creates at most 35.
C34_PlanIsTruncated ==
  /\ parsedPlan.tasks <= 10 /\ mainLeft <= 10
  /\ parsedPlan.subs <= 5
  /\ \A p \in SubPlanners : subLeft[p] <= 5
  /\ mainLeft + SumTo(subLeft, MaxSubPlanners) <= 35

\* An output of 11 tasks and 6 areas read on the direct path, cut to 10 and
\* 5, with 5 tasks for each sub-planner.
C34_Witness ==
  /\ plannerRaw.form = "direct" /\ plannerRaw.tasks = 11 /\ plannerRaw.subs = 6
  /\ parsedPlan.ok /\ mainLeft = 10 /\ parsedPlan.subs = 5
  /\ mainLeft + SumTo(subLeft, MaxSubPlanners) = 35

\* The Planner's agent failed, or its output is not a plan.
PlannerHasNoPlan ==
  ~plannerRaw.success \/ plannerRaw.form = "none" \/ ~plannerRaw.valid

\* C35: a Planner run whose agent fails or whose output does not parse
\* returns the empty list at once and writes nothing: the Task Store and
\* the session file are unchanged by the step, and stay as they were.
C35_FailedPlanWritesNothing ==
  /\ [][(PlannerHasNoPlan /\ opc = "planner" /\ opc' # "planner") =>
          /\ planned' = 0 /\ opc' = "stage_start"
          /\ tasks' = tasks /\ state' = state]_vars
  /\ [](PlannerHasNoPlan =>
          /\ opc \in {"planner", "stage_start"}
          /\ CreatedIn(tasks) = 0
          /\ state.tasks_created = Len(tasks)
          /\ state.tasks_pending = CountStatus(tasks, "pending"))

\* The run has returned [] for an output that is JSON without a tasks array,
\* on a store that held a task.
C35_Witness ==
  /\ opc = "stage_start" /\ plannerRaw.success /\ plannerRaw.form = "pattern"
  /\ ~plannerRaw.valid /\ planned = 0 /\ Len(tasks) = 1

\* C36: when the Judge's agent gave no usable output because its execution
\* failed, the decision of the cycle is the heuristic decision for the cycle
\* and the tasks the Judge read.
C36_HeuristicWithoutOutput ==
  (opc = "inc_load" /\ judgeOutput.reasoning = "execution_failed") =>
    judgeOutput.decision =
      heuristicDecision(judgeStats(tasks),
                        [current |-> cur + 1, max |-> opts.maxCycles]).decision

\* C37: in every Task Store every task has attempts <= max_attempts.
C37_AttemptsWithinMax ==
  \A i \in 1..Len(tasks) : tasks[i].attempts <= tasks[i].max_attempts

\* C38: whenever no call of executeTask is in flight, no kind of the
\* persisted pool is busy.
C38_NoBusyLeak ==
  (\A e \in Executors : epc[e] = "idle") =>
    \A k \in KindSet : pool[k].status # "busy"

\* C39: at most one execution runs on a kind at any time.
C39_OneExecutionPerKind ==
  \A e1, e2 \in Executors :
    (e1 # e2 /\ epc[e1] = "execute" /\ epc[e2] = "execute") => eagent[e1] # eagent[e2]

====
